---- MODULE Spec2Model ----
(***************************************************************************)
(* voteperfx: vote correlation (vote_tracker.rs) and performance           *)
(* aggregation (performance.rs), driven by the tasks of main.rs.           *)
(*                                                                         *)
(* Option<T> is modelled as a sequence: None == <<>>, Some(x) == <<x>>.    *)
(* Wall-clock timestamps of PendingVote / ConfirmedVote are never read by  *)
(* the code and are left out of the records.                               *)
(***************************************************************************)
EXTENDS Integers, Sequences, FiniteSets, TLC

VARIABLES
    vote_tracker,   \* the VoteTracker behind Arc<RwLock<..>>          (main.rs:81)
    stats,          \* the PerformanceStats behind Arc<RwLock<..>>     (main.rs:82)
    now,            \* seconds on the monotonic clock (Instant::now())
    handled,        \* how many updates the two workers have taken off their queues
    last,           \* the most recent call: its inputs and what it returned
    stream,         \* inbound messages of the gRPC stream not yet read  (main.rs:70)
    supplied,       \* how many messages the transport has delivered so far
    subscribe_tx,   \* what was sent on the outbound side of the stream  (main.rs:70)
    tx_channel,     \* mpsc channel tx_sender -> tx_receiver             (main.rs:86)
    block_channel,  \* mpsc channel block_sender -> block_receiver       (main.rs:87)
    cleanup_channel,\* mpsc channel cleanup_tx -> cleanup_rx             (main.rs:90)
    vote_tracker_lock, \* the RwLock around the VoteTracker              (main.rs:81)
    stats_lock,     \* the RwLock around the PerformanceStats            (main.rs:82)
    stream_task,    \* the classification task                      (main.rs:109-148)
    tx_task,        \* the transaction-intake task                  (main.rs:151-159)
    dashboard_task, \* the block-processing / presentation task     (main.rs:162-219)
    main_task,      \* main after the tasks are spawned             (main.rs:223-250)
    audit,          \* the events the audit sink has persisted  (performance.rs:446-471)
    recorded,       \* the votes handed to add_confirmed_vote so far, in call order
    ring,           \* a CircularBuffer on its own              (vote_tracker.rs:89-137)
    pushes          \* the items pushed into ring so far, in push order

\* the state of the tasks, channels and locks
pipeline_vars ==
    <<stream, supplied, subscribe_tx, tx_channel, block_channel, cleanup_channel,
      vote_tracker_lock, stats_lock, stream_task, tx_task, dashboard_task, main_task>>

\* the state of the components exercised on their own
unit_vars == <<recorded, ring, pushes>>

vars == <<vote_tracker, stats, now, handled, last, pipeline_vars, audit, unit_vars>>

None == <<>>
Some(x) == <<x>>

Min(a, b) == IF a <= b THEN a ELSE b
Max(a, b) == IF a >= b THEN a ELSE b

(***************************************************************************)
(* Bounds of the model                                                     *)
(***************************************************************************)
\* slots that transactions, votes and blocks carry
Slots == {1000, 1004, 1200}
\* slots a vote instruction votes on, and slots a transaction update lands in
VotedSlots == {1000, 1200}
\* slots of the finalized blocks
BlockSlots == {1004, 1200}
\* the 64-byte signatures on the wire (abstract identities of byte strings)
SigBytes == {1, 2}
\* updates the stream delivers in one run
MaxUpdates == 3
\* messages the transport delivers in one run of the pipeline
MaxMessages == 3
\* capacity of the two work queues: mpsc::channel(1000) of main.rs:86-87,
\* scaled down so that a queue fills within MaxMessages
QueueCapacity == 1
\* pending_count is capped (the guard of the intake actions)
MaxPendingCount == 2
\* the clock stops advancing here
MaxNow == 60
\* one Tick of the clock, in seconds
TickSecs == 60
\* direct API use: most recent-confirmed pushes / processed-slot pushes
MaxConfirmed == 3
MaxProcessed == 3
\* calls made on a VoteTracker whose sweep is exercised on its own
MaxSweepCalls == 4
\* the clock of the tracker used on its own runs over two sweep intervals
MaxSweepNow == 120
\* votes confirmed while evictions are followed
MaxEvictConfirmed == 1
\* the interner on its own: its capacity (2048 in VoteTracker::new, scaled
\* down so that it fills) and the calls made on it
MaxInternerEntries == 3
MaxInternerCalls == 5
\* the credit model is evaluated on every latency up to MaxLatency, and on
\* one very large latency
MaxLatency == 300
\* PerformanceStats on its own: record calls in one run (past the windows of
\* 20 and 50), and how often the kind of vote changes from one call to the next
MaxRecords == 52
MaxSwitches == 1
\* CircularBuffer on its own: the small capacities tried, and how many
\* pushes go past the capacity of a ring
MaxCapacity == 3
MaxOverflow == 2
LargeLatency == 2000000000

(***************************************************************************)
(* Credit model (performance.rs)                                           *)
(***************************************************************************)
VOTE_CREDITS_GRACE_SLOTS == 2
VOTE_CREDITS_MAXIMUM_PER_SLOT == 16

\* u64::saturating_sub
saturating_sub(a, b) == IF a >= b THEN a - b ELSE 0

\* u64::checked_sub: None on underflow
checked_sub(a, b) == IF a >= b THEN Some(a - b) ELSE None

\* mutant: the clamp to 1 is lost when 16 - penalty is exactly 0
calculate_tvc_credits_from_latency_noclamp(latency) ==
    IF latency <= VOTE_CREDITS_GRACE_SLOTS
    THEN VOTE_CREDITS_MAXIMUM_PER_SLOT
    ELSE LET penalty == latency - VOTE_CREDITS_GRACE_SLOTS
             r == checked_sub(VOTE_CREDITS_MAXIMUM_PER_SLOT, penalty)
         IN  IF r # None THEN r[1] ELSE 1

\* mutant: 16 - penalty saturates at 0 instead of stopping at 1
calculate_tvc_credits_from_latency_floor0(latency) ==
    IF latency <= VOTE_CREDITS_GRACE_SLOTS
    THEN VOTE_CREDITS_MAXIMUM_PER_SLOT
    ELSE saturating_sub(VOTE_CREDITS_MAXIMUM_PER_SLOT,
                        latency - VOTE_CREDITS_GRACE_SLOTS)

\* mutant: the grace slots are not taken off the penalty
calculate_tvc_credits_from_latency_nograce(latency) ==
    IF latency <= VOTE_CREDITS_GRACE_SLOTS
    THEN VOTE_CREDITS_MAXIMUM_PER_SLOT
    ELSE LET r == checked_sub(VOTE_CREDITS_MAXIMUM_PER_SLOT, latency)
         IN  IF r # None /\ r[1] > 0 THEN r[1] ELSE 1

\* mutant: the grace period is one slot
calculate_tvc_credits_from_latency_grace1(latency) ==
    IF latency <= 1
    THEN VOTE_CREDITS_MAXIMUM_PER_SLOT
    ELSE LET penalty == latency - 1
             r == checked_sub(VOTE_CREDITS_MAXIMUM_PER_SLOT, penalty)
         IN  IF r # None /\ r[1] > 0 THEN r[1] ELSE 1

calculate_tvc_credits_from_latency(latency) ==
    IF latency <= VOTE_CREDITS_GRACE_SLOTS
    THEN VOTE_CREDITS_MAXIMUM_PER_SLOT
    ELSE LET penalty == latency - VOTE_CREDITS_GRACE_SLOTS
             r == checked_sub(VOTE_CREDITS_MAXIMUM_PER_SLOT, penalty)
         IN  IF r # None /\ r[1] > 0 THEN r[1] ELSE 1

\* returns (latency, credits)
calculate_tvc_credits(voted_slot, finalized_slot) ==
    LET latency == saturating_sub(finalized_slot, voted_slot)
    IN  <<latency, calculate_tvc_credits_from_latency(latency)>>

categorize_tvc_performance(tvc_credits) ==
    IF tvc_credits = 16 THEN "optimal"
    ELSE IF tvc_credits >= 12 /\ tvc_credits <= 15 THEN "good"
    ELSE IF tvc_credits >= 8 /\ tvc_credits <= 11 THEN "fair"
    ELSE IF tvc_credits >= 4 /\ tvc_credits <= 7 THEN "poor"
    ELSE "critical"

(***************************************************************************)
(* CircularBuffer<T> (vote_tracker.rs)                                     *)
(***************************************************************************)
CircularBuffer_new(capacity) ==
    [data |-> [i \in {} |-> None],
     head |-> 0, tail |-> 0, size |-> 0, capacity |-> capacity]

\* data[idx]: data is kept as the cells written so far, every other cell of
\* vec![None; capacity] is None
CircularBuffer_at(buf, idx) ==
    IF idx \in DOMAIN buf.data THEN Some(buf.data[idx]) ELSE None

\* mutant: a push into a full ring does not move the head
CircularBuffer_push_keeps_head(buf, item) ==
    [buf EXCEPT
        !.data = [i \in DOMAIN buf.data \cup {buf.tail} |->
                     IF i = buf.tail THEN item ELSE buf.data[i]],
        !.tail = (buf.tail + 1) % buf.capacity,
        !.size = IF buf.size < buf.capacity THEN buf.size + 1 ELSE buf.size]

CircularBuffer_push(buf, item) ==
    [buf EXCEPT
        !.data = [i \in DOMAIN buf.data \cup {buf.tail} |->
                     IF i = buf.tail THEN item ELSE buf.data[i]],
        !.tail = (buf.tail + 1) % buf.capacity,
        !.size = IF buf.size < buf.capacity THEN buf.size + 1 ELSE buf.size,
        !.head = IF buf.size < buf.capacity THEN buf.head
                 ELSE (buf.head + 1) % buf.capacity]

CircularBuffer_len(buf) == buf.size

\* the cell the closure of iter() reads when its counter is count: idx
\* started at head and was advanced count times
CircularBuffer_iter_item(buf, count) ==
    CircularBuffer_at(buf, (buf.head + count) % buf.capacity)

\* the items iter() yields, oldest first: from_fn ends when count reaches
\* size, and at the first None it meets
CircularBuffer_iter(buf) ==
    LET yielded == {count \in 0..(buf.size - 1) :
                       \A c \in 0..count : CircularBuffer_iter_item(buf, c) # None}
    IN  [n \in 1..Cardinality(yielded) |-> CircularBuffer_iter_item(buf, n - 1)[1]]

(***************************************************************************)
(* SignatureCache (vote_tracker.rs)                                        *)
(***************************************************************************)
\* fd_bs58::encode_64: the base58 text of a 64-byte key (injective)
Base58Text == <<"S1", "S2", "S3", "S4", "S5">>
fd_bs58_encode_64(key) == Base58Text[key]

Signatures == {fd_bs58_encode_64(b) : b \in SigBytes}

SignatureCache_new(max_entries) ==
    [cache |-> [k \in {} |-> ""], max_entries |-> max_entries]

\* the orders in which FxHashMap::keys() may enumerate the keys
KeyOrders ==
    {o \in [1..Cardinality(SigBytes) -> SigBytes] :
        \A i, j \in DOMAIN o : i # j => o[i] # o[j]}

first_key(cache, order) ==
    LET idx == {i \in DOMAIN order : order[i] \in DOMAIN cache}
    IN  IF idx = {} THEN None
        ELSE Some(order[CHOOSE i \in idx : \A j \in idx : i <= j])

\* mutant: the entry made after an eviction shares the evicted entry's text
SignatureCache_get_or_insert_reuses_text(self, key, order) ==
    IF key \in DOMAIN self.cache
    THEN [cache |-> self, signature |-> self.cache[key]]
    ELSE LET fk == first_key(self.cache, order)
             evicts == Cardinality(DOMAIN self.cache) >= self.max_entries /\ fk # None
             kept == IF evicts THEN DOMAIN self.cache \ {fk[1]} ELSE DOMAIN self.cache
             signature == IF evicts THEN self.cache[fk[1]] ELSE fd_bs58_encode_64(key)
         IN  [cache |-> [self EXCEPT !.cache =
                            [k \in kept \cup {key} |->
                                IF k = key THEN signature ELSE self.cache[k]]],
              signature |-> signature]

\* mutant: a full cache evicts nothing
SignatureCache_get_or_insert_no_evict(self, key, order) ==
    IF key \in DOMAIN self.cache
    THEN [cache |-> self, signature |-> self.cache[key]]
    ELSE LET signature == fd_bs58_encode_64(key)
         IN  [cache |-> [self EXCEPT !.cache =
                            [k \in DOMAIN self.cache \cup {key} |->
                                IF k = key THEN signature ELSE self.cache[k]]],
              signature |-> signature]

\* returns the cache afterwards and the shared text
SignatureCache_get_or_insert(self, key, order) ==
    IF key \in DOMAIN self.cache
    THEN [cache |-> self, signature |-> self.cache[key]]
    ELSE LET fk == first_key(self.cache, order)
             kept == IF Cardinality(DOMAIN self.cache) >= self.max_entries /\ fk # None
                     THEN DOMAIN self.cache \ {fk[1]}
                     ELSE DOMAIN self.cache
             signature == fd_bs58_encode_64(key)
         IN  [cache |-> [self EXCEPT !.cache =
                            [k \in kept \cup {key} |->
                                IF k = key THEN signature ELSE self.cache[k]]],
              signature |-> signature]

(***************************************************************************)
(* Vote instruction payloads (vote_tracker.rs)                             *)
(*                                                                         *)
(* Instruction bytes are represented by what limited_deserialize makes of  *)
(* them: a VoteInstruction variant with its slots or lockouts, or a        *)
(* failure to deserialize.                                                 *)
(***************************************************************************)
VoteSlotInfo_new(slot, confirmation_count) ==
    [slot |-> slot, confirmation_count |-> confirmation_count]

\* mutant: every decoded slot counts as a new vote
VoteSlotInfo_is_new_vote_any(vote_info) == vote_info.confirmation_count # None

VoteSlotInfo_is_new_vote(vote_info) == vote_info.confirmation_count = Some(1)

VoteSlotInfo_is_existing_vote(vote_info) ==
    vote_info.confirmation_count # None /\ vote_info.confirmation_count[1] > 1

RECURSIVE MapSeq(_, _)
MapSeq(Op(_), s) == IF s = <<>> THEN <<>> ELSE <<Op(Head(s))>> \o MapSeq(Op, Tail(s))

VoteOfSlot(slot) == VoteSlotInfo_new(slot, Some(1))
VoteOfLockout(lockout) ==
    VoteSlotInfo_new(lockout.slot, Some(lockout.confirmation_count))

\* Result<Vec<VoteSlotInfo>>: [ok |-> TRUE, value |-> ..] or [ok |-> FALSE]
parse_vote_instruction_data(data) ==
    IF data.kind = "Malformed" THEN [ok |-> FALSE, value |-> <<>>]
    ELSE IF data.kind \in {"Vote", "VoteSwitch"}
         THEN [ok |-> TRUE, value |-> MapSeq(VoteOfSlot, data.slots)]
    ELSE IF data.kind \in {"UpdateVoteState", "UpdateVoteStateSwitch",
                           "CompactUpdateVoteState", "CompactUpdateVoteStateSwitch",
                           "TowerSync", "TowerSyncSwitch"}
         THEN [ok |-> TRUE, value |-> MapSeq(VoteOfLockout, data.lockouts)]
    ELSE [ok |-> FALSE, value |-> <<>>]

(***************************************************************************)
(* VoteTracker (vote_tracker.rs)                                           *)
(***************************************************************************)
CONFIRMED_VOTES_CAPACITY == 100
PROCESSED_SLOTS_CAPACITY == 50
SIGNATURE_CACHE_MAX_ENTRIES == 2048
CLEANUP_INTERVAL_SECS == 60
CLEANUP_SLOT_WINDOW == 100

PendingVote(signature, voted_slots, transaction_slot, instruction_data) ==
    [signature |-> signature, voted_slots |-> voted_slots,
     transaction_slot |-> transaction_slot, instruction_data |-> instruction_data]

ConfirmedVote(signature, voted_slot, finalized_slot, latency, tvc_credits) ==
    [signature |-> signature, voted_slot |-> voted_slot,
     finalized_slot |-> finalized_slot, latency |-> latency,
     tvc_credits |-> tvc_credits]

VoteTracker_new(t) ==
    [pending_votes |-> [k \in {} |-> None],
     confirmed_votes |-> CircularBuffer_new(CONFIRMED_VOTES_CAPACITY),
     processed_slots |-> CircularBuffer_new(PROCESSED_SLOTS_CAPACITY),
     signature_cache |-> SignatureCache_new(SIGNATURE_CACHE_MAX_ENTRIES),
     last_cleanup_slot |-> 0,
     last_cleanup_time |-> t,
     pending_count |-> 0]

Last(s) == s[Len(s)]

\* mutant: the window is 1000 slots wide
cleanup_old_pending_wide_window(self, t) ==
    LET seen == CircularBuffer_iter(self.processed_slots)
        current_slot == IF seen = <<>> THEN 0 ELSE Last(seen)
        cutoff_slot == saturating_sub(current_slot, 10 * CLEANUP_SLOT_WINDOW)
        kept == {k \in DOMAIN self.pending_votes :
                    self.pending_votes[k].transaction_slot > cutoff_slot}
    IN  [self EXCEPT
            !.pending_votes = [k \in kept |-> self.pending_votes[k]],
            !.pending_count = Cardinality(kept),
            !.last_cleanup_slot = current_slot,
            !.last_cleanup_time = t]

\* mutant: an entry exactly at the cutoff is kept
cleanup_old_pending_keeps_cutoff(self, t) ==
    LET seen == CircularBuffer_iter(self.processed_slots)
        current_slot == IF seen = <<>> THEN 0 ELSE Last(seen)
        cutoff_slot == saturating_sub(current_slot, CLEANUP_SLOT_WINDOW)
        kept == {k \in DOMAIN self.pending_votes :
                    self.pending_votes[k].transaction_slot >= cutoff_slot}
    IN  [self EXCEPT
            !.pending_votes = [k \in kept |-> self.pending_votes[k]],
            !.pending_count = Cardinality(kept),
            !.last_cleanup_slot = current_slot,
            !.last_cleanup_time = t]

cleanup_old_pending(self, t) ==
    LET seen == CircularBuffer_iter(self.processed_slots)
        current_slot == IF seen = <<>> THEN 0 ELSE Last(seen)
        cutoff_slot == saturating_sub(current_slot, CLEANUP_SLOT_WINDOW)
        kept == {k \in DOMAIN self.pending_votes :
                    self.pending_votes[k].transaction_slot > cutoff_slot}
    IN  [self EXCEPT
            !.pending_votes = [k \in kept |-> self.pending_votes[k]],
            !.pending_count = Cardinality(kept),
            !.last_cleanup_slot = current_slot,
            !.last_cleanup_time = t]

\* mutant: the sweep runs before the insert, so the new entry escapes it
add_pending_vote_sweeps_first(self, pending, t) ==
    LET swept == IF t - self.last_cleanup_time >= CLEANUP_INTERVAL_SECS
                 THEN cleanup_old_pending(self, t)
                 ELSE self
    IN  [swept EXCEPT
            !.pending_votes =
                [k \in DOMAIN swept.pending_votes \cup {pending.signature} |->
                    IF k = pending.signature THEN pending
                    ELSE swept.pending_votes[k]],
            !.pending_count = swept.pending_count + 1]

\* mutant: an entry that is already pending under the signature is kept
add_pending_vote_keeps_first(self, pending, t) ==
    LET inserted ==
            [self EXCEPT
                !.pending_votes =
                    [k \in DOMAIN self.pending_votes \cup {pending.signature} |->
                        IF k \in DOMAIN self.pending_votes THEN self.pending_votes[k]
                        ELSE pending],
                !.pending_count = self.pending_count + 1]
    IN  IF t - self.last_cleanup_time >= CLEANUP_INTERVAL_SECS
        THEN cleanup_old_pending(inserted, t)
        ELSE inserted

add_pending_vote(self, pending, t) ==
    LET inserted ==
            [self EXCEPT
                !.pending_votes =
                    [k \in DOMAIN self.pending_votes \cup {pending.signature} |->
                        IF k = pending.signature THEN pending
                        ELSE self.pending_votes[k]],
                !.pending_count = self.pending_count + 1]
    IN  IF t - self.last_cleanup_time >= CLEANUP_INTERVAL_SECS
        THEN cleanup_old_pending(inserted, t)
        ELSE inserted

\* mutant: only the confirmed slot is taken out of the entry, which stays
\* pending while it has other slots
confirm_vote_keeps_other_slots(self, signature, voted_slot, finalized_slot) ==
    IF finalized_slot < voted_slot THEN [tracker |-> self, ret |-> None]
    ELSE IF signature \in DOMAIN self.pending_votes
    THEN LET pending == self.pending_votes[signature]
             rest == pending.voted_slots \ {voted_slot}
         IN  IF voted_slot \in pending.voted_slots
             THEN LET latency == saturating_sub(finalized_slot, voted_slot)
                      confirmed == ConfirmedVote(signature, voted_slot, finalized_slot,
                                       latency, calculate_tvc_credits_from_latency(latency))
                  IN  [tracker |-> [self EXCEPT
                          !.pending_votes =
                              IF rest = {}
                              THEN [k \in DOMAIN self.pending_votes \ {signature} |->
                                       self.pending_votes[k]]
                              ELSE [self.pending_votes EXCEPT
                                       ![signature].voted_slots = rest],
                          !.pending_count =
                              IF rest = {} THEN self.pending_count - 1
                              ELSE self.pending_count,
                          !.confirmed_votes =
                              CircularBuffer_push(self.confirmed_votes, confirmed)],
                       ret |-> Some(confirmed)]
             ELSE [tracker |-> self, ret |-> None]
    ELSE LET lc == calculate_tvc_credits(voted_slot, finalized_slot)
         IN  [tracker |-> self,
              ret |-> Some(ConfirmedVote(signature, voted_slot, finalized_slot,
                                         lc[1], lc[2]))]

\* mutant: the late-arriving path pushes its vote into the recent-confirmed ring
confirm_vote_late_pushes(self, signature, voted_slot, finalized_slot) ==
    IF finalized_slot < voted_slot THEN [tracker |-> self, ret |-> None]
    ELSE IF signature \in DOMAIN self.pending_votes
    THEN confirm_vote_keeps_other_slots(self, signature, voted_slot, finalized_slot)
    ELSE LET lc == calculate_tvc_credits(voted_slot, finalized_slot)
             confirmed == ConfirmedVote(signature, voted_slot, finalized_slot,
                                        lc[1], lc[2])
         IN  [tracker |-> [self EXCEPT !.confirmed_votes =
                              CircularBuffer_push(self.confirmed_votes, confirmed)],
              ret |-> Some(confirmed)]

\* mutant: a pending signature is confirmed for any slot, member or not
confirm_vote_any_slot(self, signature, voted_slot, finalized_slot) ==
    IF finalized_slot < voted_slot THEN [tracker |-> self, ret |-> None]
    ELSE IF signature \in DOMAIN self.pending_votes
    THEN LET latency == saturating_sub(finalized_slot, voted_slot)
             confirmed == ConfirmedVote(signature, voted_slot, finalized_slot,
                              latency, calculate_tvc_credits_from_latency(latency))
         IN  [tracker |-> [self EXCEPT
                 !.pending_votes =
                     [k \in DOMAIN self.pending_votes \ {signature} |->
                         self.pending_votes[k]],
                 !.pending_count = self.pending_count - 1,
                 !.confirmed_votes =
                     CircularBuffer_push(self.confirmed_votes, confirmed)],
              ret |-> Some(confirmed)]
    ELSE LET lc == calculate_tvc_credits(voted_slot, finalized_slot)
         IN  [tracker |-> self,
              ret |-> Some(ConfirmedVote(signature, voted_slot, finalized_slot,
                                         lc[1], lc[2]))]

\* mutant: the slot order is not validated
confirm_vote_no_order_check(self, signature, voted_slot, finalized_slot) ==
    IF signature \in DOMAIN self.pending_votes
    THEN confirm_vote_any_slot(self, signature, voted_slot, finalized_slot)
    ELSE LET lc == calculate_tvc_credits(voted_slot, finalized_slot)
         IN  [tracker |-> self,
              ret |-> Some(ConfirmedVote(signature, voted_slot, finalized_slot,
                                         lc[1], lc[2]))]

\* returns the tracker afterwards and the Option<ConfirmedVote>
confirm_vote(self, signature, voted_slot, finalized_slot) ==
    IF finalized_slot < voted_slot THEN [tracker |-> self, ret |-> None]
    ELSE IF signature \in DOMAIN self.pending_votes
    THEN LET pending == self.pending_votes[signature]
         IN  IF voted_slot \in pending.voted_slots
             THEN LET latency == saturating_sub(finalized_slot, voted_slot)
                      tvc_credits == calculate_tvc_credits_from_latency(latency)
                      confirmed == ConfirmedVote(signature, voted_slot, finalized_slot,
                                                 latency, tvc_credits)
                  IN  [tracker |-> [self EXCEPT
                          !.pending_votes =
                              [k \in DOMAIN self.pending_votes \ {signature} |->
                                  self.pending_votes[k]],
                          !.pending_count = self.pending_count - 1,
                          !.confirmed_votes =
                              CircularBuffer_push(self.confirmed_votes, confirmed)],
                       ret |-> Some(confirmed)]
             ELSE [tracker |-> self, ret |-> None]
    ELSE LET lc == calculate_tvc_credits(voted_slot, finalized_slot)
         IN  [tracker |-> self,
              ret |-> Some(ConfirmedVote(signature, voted_slot, finalized_slot,
                                         lc[1], lc[2]))]

has_processed_slot(self, slot) ==
    LET seen == CircularBuffer_iter(self.processed_slots)
    IN  \E i \in DOMAIN seen : seen[i] = slot

mark_slot_processed(self, slot) ==
    [self EXCEPT !.processed_slots = CircularBuffer_push(self.processed_slots, slot)]

get_stats(self) ==
    [pending_votes |-> self.pending_count,
     confirmed_votes |-> CircularBuffer_len(self.confirmed_votes),
     processed_slots |-> CircularBuffer_len(self.processed_slots)]

\* returns the tracker afterwards and the shared text
get_or_cache_signature(self, signature_bytes, order) ==
    LET r == SignatureCache_get_or_insert(self.signature_cache, signature_bytes, order)
    IN  [tracker |-> [self EXCEPT !.signature_cache = r.cache],
         signature |-> r.signature]

(***************************************************************************)
(* PerformanceStats (performance.rs)                                       *)
(***************************************************************************)
RECENT_CONFIRMED_WINDOW == 20
AVG_LATENCY_WINDOW == 20
SESSION_POOR_WINDOW == 50

PerformanceStats_new ==
    [total_transactions |-> 0,
     total_tvc_earned |-> 0,
     total_tvc_possible |-> 0,
     optimal_votes |-> 0,
     good_votes |-> 0,
     poor_votes |-> 0,
     low_latency_votes |-> 0,
     recent_confirmed_votes |-> <<>>,
     session_poor_votes |-> <<>>,
     avg_latency_window |-> <<>>,
     avg_latency_window_sum |-> 0,
     current_finalized_slot |-> 0,
     last_confirmed_vote |-> None,
     total_latency_sum |-> 0]

\* VecDeque::push_back followed by pop_front when longer than the window
push_back_bounded(q, item, window) ==
    LET pushed == Append(q, item)
    IN  IF Len(pushed) > window THEN Tail(pushed) ELSE pushed

\* mutant: the possible credits are not counted
add_confirmed_vote_skips_possible(self, confirmed) ==
    [self EXCEPT
        !.total_transactions = @ + 1,
        !.total_tvc_earned = @ + confirmed.tvc_credits,
        !.current_finalized_slot = confirmed.finalized_slot,
        !.total_latency_sum = @ + confirmed.latency,
        !.optimal_votes = IF confirmed.tvc_credits = 16 THEN @ + 1 ELSE @,
        !.good_votes = IF confirmed.tvc_credits >= 12 /\ confirmed.tvc_credits <= 15
                       THEN @ + 1 ELSE @,
        !.poor_votes = IF confirmed.tvc_credits < 12 THEN @ + 1 ELSE @,
        !.last_confirmed_vote = Some(confirmed)]

\* mutant: a vote of the fair tier is counted in no bucket
add_confirmed_vote_fair_uncounted(self, confirmed) ==
    [add_confirmed_vote_skips_possible(self, confirmed) EXCEPT
        !.total_tvc_possible = @ + VOTE_CREDITS_MAXIMUM_PER_SLOT,
        !.poor_votes = IF confirmed.tvc_credits >= 8 /\ confirmed.tvc_credits <= 11
                       THEN self.poor_votes ELSE @]

\* mutant: the latency that leaves the window stays in the running sum
add_confirmed_vote_sum_keeps_removed(self, confirmed) ==
    [self EXCEPT
        !.total_transactions = @ + 1,
        !.recent_confirmed_votes =
            push_back_bounded(@, confirmed, RECENT_CONFIRMED_WINDOW),
        !.avg_latency_window = push_back_bounded(@, confirmed.latency, AVG_LATENCY_WINDOW),
        !.avg_latency_window_sum = @ + confirmed.latency,
        !.session_poor_votes =
            IF confirmed.tvc_credits < VOTE_CREDITS_MAXIMUM_PER_SLOT
            THEN push_back_bounded(@, confirmed, SESSION_POOR_WINDOW)
            ELSE @,
        !.last_confirmed_vote = Some(confirmed)]

add_confirmed_vote(self, confirmed) ==
    LET window == Append(self.avg_latency_window, confirmed.latency)
        sum == self.avg_latency_window_sum + confirmed.latency
    IN  [self EXCEPT
            !.total_transactions = @ + 1,
            !.total_tvc_earned = @ + confirmed.tvc_credits,
            !.total_tvc_possible = @ + VOTE_CREDITS_MAXIMUM_PER_SLOT,
            !.current_finalized_slot = confirmed.finalized_slot,
            !.total_latency_sum = @ + confirmed.latency,
            !.optimal_votes = IF confirmed.tvc_credits = 16 THEN @ + 1 ELSE @,
            !.good_votes = IF confirmed.tvc_credits >= 12 /\ confirmed.tvc_credits <= 15
                           THEN @ + 1 ELSE @,
            !.poor_votes = IF confirmed.tvc_credits # 16
                              /\ ~(confirmed.tvc_credits >= 12 /\ confirmed.tvc_credits <= 15)
                           THEN @ + 1 ELSE @,
            !.low_latency_votes = IF confirmed.latency <= 2 THEN @ + 1 ELSE @,
            !.recent_confirmed_votes =
                push_back_bounded(@, confirmed, RECENT_CONFIRMED_WINDOW),
            !.avg_latency_window =
                IF Len(window) > AVG_LATENCY_WINDOW THEN Tail(window) ELSE window,
            !.avg_latency_window_sum =
                IF Len(window) > AVG_LATENCY_WINDOW THEN sum - Head(window) ELSE sum,
            !.session_poor_votes =
                IF confirmed.tvc_credits < VOTE_CREDITS_MAXIMUM_PER_SLOT
                THEN push_back_bounded(@, confirmed, SESSION_POOR_WINDOW)
                ELSE @,
            !.last_confirmed_vote = Some(confirmed)]

calculate_missed_credits(self) ==
    saturating_sub(self.total_tvc_possible, self.total_tvc_earned)

\* add_confirmed_vote up to and including its first store (line 177) ...
add_confirmed_vote_begin(self) == [self EXCEPT !.total_transactions = @ + 1]

\* ... and the stores that follow it (lines 178-214)
add_confirmed_vote_finish(self, confirmed) ==
    [add_confirmed_vote([self EXCEPT !.total_transactions = @ - 1], confirmed)
        EXCEPT !.total_transactions = self.total_transactions]

(***************************************************************************)
(* PerformanceFilterConfig (config.rs) and the audit sink (performance.rs)  *)
(***************************************************************************)
PerformanceFilterConfig(enabled, min_latency_threshold, max_latency_threshold, min_tvc_threshold, max_tvc_threshold, performance_levels) ==
    [enabled |-> enabled,
     min_latency_threshold |-> min_latency_threshold,
     max_latency_threshold |-> max_latency_threshold,
     min_tvc_threshold |-> min_tvc_threshold,
     max_tvc_threshold |-> max_tvc_threshold,
     performance_levels |-> performance_levels]

PerformanceFilterConfig_default ==
    PerformanceFilterConfig(TRUE, Some(1), None, None, Some(15), <<"poor", "critical">>)

\* TvcPerformanceLevel::as_str: the variants are represented by their names
TvcPerformanceLevel_as_str(level) ==
    CASE level = "optimal" -> "optimal"
      [] level = "good" -> "good"
      [] level = "fair" -> "fair"
      [] level = "poor" -> "poor"
      [] level = "critical" -> "critical"

\* str::to_lowercase on the spellings of the tier names that occur
to_lowercase(text) ==
    CASE text \in {"optimal", "Optimal", "OPTIMAL"} -> "optimal"
      [] text \in {"good", "Good", "GOOD"} -> "good"
      [] text \in {"fair", "Fair", "FAIR"} -> "fair"
      [] text \in {"poor", "Poor", "POOR"} -> "poor"
      [] text \in {"critical", "Critical", "CRITICAL"} -> "critical"

\* mutant: the tier names are compared as they are spelled
should_save_vote_case_sensitive(self, latency, tvc_credits, performance_level) ==
    /\ self.enabled
    /\ self.min_latency_threshold # None => latency >= self.min_latency_threshold[1]
    /\ self.max_latency_threshold # None => latency <= self.max_latency_threshold[1]
    /\ self.min_tvc_threshold # None => tvc_credits >= self.min_tvc_threshold[1]
    /\ self.max_tvc_threshold # None => tvc_credits <= self.max_tvc_threshold[1]
    /\ self.performance_levels # <<>> =>
          \E n \in DOMAIN self.performance_levels :
              self.performance_levels[n] = TvcPerformanceLevel_as_str(performance_level)

should_save_vote(self, latency, tvc_credits, performance_level) ==
    IF ~self.enabled THEN FALSE
    ELSE IF self.min_latency_threshold # None /\ latency < self.min_latency_threshold[1]
    THEN FALSE
    ELSE IF self.max_latency_threshold # None /\ latency > self.max_latency_threshold[1]
    THEN FALSE
    ELSE IF self.min_tvc_threshold # None /\ tvc_credits < self.min_tvc_threshold[1]
    THEN FALSE
    ELSE IF self.max_tvc_threshold # None /\ tvc_credits > self.max_tvc_threshold[1]
    THEN FALSE
    ELSE IF self.performance_levels # <<>>
            /\ ~\E n \in DOMAIN self.performance_levels :
                   to_lowercase(self.performance_levels[n])
                       = to_lowercase(TvcPerformanceLevel_as_str(performance_level))
    THEN FALSE
    ELSE TRUE

\* the tracked vote account (a command-line argument of main)
VOTE_ACCOUNT == "VoteAccount11111111111111111111111111111111"

\* the PoorPerformanceEvent built for a vote; the timestamp is left out and
\* tvc_multiplier, an f64, is kept as the fraction credits / 16
PoorPerformanceEvent(confirmed, vote_account) ==
    [landed_slot |-> confirmed.finalized_slot,
     voted_slot |-> confirmed.voted_slot,
     latency |-> confirmed.latency,
     tvc_credits |-> confirmed.tvc_credits,
     transaction_signature |-> confirmed.signature,
     vote_account |-> vote_account,
     total_tvc_credits |-> confirmed.tvc_credits,
     total_voted_slots |-> 1,
     tvc_multiplier |-> <<confirmed.tvc_credits, VOTE_CREDITS_MAXIMUM_PER_SLOT>>]

\* returns the file afterwards and whether the Result is Ok; sink_ok is
\* whether the file operations succeed
save_performance_event(file, event, filter_config, sink_ok) ==
    IF ~should_save_vote(filter_config, event.latency, event.tvc_credits,
                         categorize_tvc_performance(event.tvc_credits))
    THEN [file |-> file, ok |-> TRUE]
    ELSE IF sink_ok THEN [file |-> Append(file, event), ok |-> TRUE]
    ELSE [file |-> file, ok |-> FALSE]

\* mutant: the event is persisted first and a failed write returns before
\* the statistics are updated
add_confirmed_vote_with_config_saves_first(self, file, confirmed, vote_account, filter_config, sink_ok) ==
    LET saved == save_performance_event(file, PoorPerformanceEvent(confirmed, vote_account),
                                        filter_config, sink_ok)
    IN  [stats |-> IF saved.ok THEN add_confirmed_vote(self, confirmed) ELSE self,
         file |-> saved.file, ok |-> saved.ok]

\* returns the statistics and the file afterwards and whether the Result is Ok
add_confirmed_vote_with_config(self, file, confirmed, vote_account, filter_config, sink_ok) ==
    LET updated == add_confirmed_vote(self, confirmed)
    IN  IF filter_config.enabled
           /\ should_save_vote(filter_config, confirmed.latency, confirmed.tvc_credits,
                               categorize_tvc_performance(confirmed.tvc_credits))
        THEN LET saved == save_performance_event(file,
                              PoorPerformanceEvent(confirmed, vote_account),
                              filter_config, sink_ok)
             IN  [stats |-> updated, file |-> saved.file, ok |-> saved.ok]
        ELSE [stats |-> updated, file |-> file, ok |-> TRUE]

\* what the file operations can do for the votes of one block: succeed or
\* fail for a vote the filter lets through, and nothing for the others
SinkOutcomes(confirmed_votes, filter_config) ==
    {sink \in [1..Len(confirmed_votes) -> BOOLEAN] :
        \A n \in DOMAIN confirmed_votes :
            ~should_save_vote(filter_config, confirmed_votes[n].latency,
                              confirmed_votes[n].tvc_credits,
                              categorize_tvc_performance(confirmed_votes[n].tvc_credits))
                => sink[n]}

\* the loop of dashboard_task over the votes of one block: an Err of the
\* record call is logged and the loop goes on; sink[n] is whether the file
\* operations succeed for the n-th vote
RECURSIVE record_confirmed_votes(_, _, _, _, _)
record_confirmed_votes(self, file, confirmed_votes, filter_config, sink) ==
    IF confirmed_votes = <<>> THEN [stats |-> self, file |-> file, errors |-> 0]
    ELSE LET r == add_confirmed_vote_with_config(self, file, Head(confirmed_votes),
                      VOTE_ACCOUNT, filter_config, Head(sink))
             rest == record_confirmed_votes(r.stats, r.file, Tail(confirmed_votes),
                                            filter_config, Tail(sink))
         IN  [rest EXCEPT !.errors = @ + (IF r.ok THEN 0 ELSE 1)]

(***************************************************************************)
(* Transaction intake and block processing (vote_tracker.rs)               *)
(***************************************************************************)
VOTE_PROGRAM_ID == "Vote111111111111111111111111111111111111111"

\* Vec::get with a 0-based index
vec_get(v, index) == IF index < Len(v) THEN Some(v[index + 1]) ELSE None

RECURSIVE new_voted_slots_from(_)
new_voted_slots_from(vote_slots) ==
    IF vote_slots = <<>> THEN {}
    ELSE (IF VoteSlotInfo_is_new_vote(Head(vote_slots)) THEN {Head(vote_slots).slot}
          ELSE {}) \cup new_voted_slots_from(Tail(vote_slots))

\* the instruction loop of process_vote_transaction, from instruction i on
RECURSIVE intake_instructions(_, _, _, _, _, _)
intake_instructions(message, i, signature, transaction_slot, tracker, t) ==
    IF i > Len(message.instructions) THEN [tracker |-> tracker, ok |-> TRUE]
    ELSE LET instruction == message.instructions[i]
             program_account == vec_get(message.account_keys, instruction.program_id_index)
         IN  IF program_account # None /\ program_account[1] = VOTE_PROGRAM_ID
             THEN LET parsed == parse_vote_instruction_data(instruction.data)
                      new_voted_slots == new_voted_slots_from(parsed.value)
                  IN  IF ~parsed.ok THEN [tracker |-> tracker, ok |-> FALSE]
                      ELSE IF new_voted_slots # {}
                      THEN intake_instructions(message, i + 1, signature, transaction_slot,
                               add_pending_vote(tracker,
                                   PendingVote(signature, new_voted_slots,
                                               transaction_slot, instruction.data), t),
                               t)
                      ELSE intake_instructions(message, i + 1, signature, transaction_slot,
                                               tracker, t)
             ELSE intake_instructions(message, i + 1, signature, transaction_slot,
                                      tracker, t)

\* returns the tracker afterwards and whether the Result is Ok
process_vote_transaction(tx_update, tracker, t, order) ==
    IF tx_update.transaction = None THEN [tracker |-> tracker, ok |-> FALSE]
    ELSE LET transaction == tx_update.transaction[1]
             cached == get_or_cache_signature(tracker, transaction.signature, order)
         IN  IF ~transaction.is_vote THEN [tracker |-> tracker, ok |-> TRUE]
             ELSE IF transaction.transaction = None
                     \/ transaction.transaction[1].message = None
                  THEN [tracker |-> cached.tracker, ok |-> TRUE]
             ELSE intake_instructions(transaction.transaction[1].message[1], 1,
                                      cached.signature, tx_update.slot,
                                      cached.tracker, t)

\* mutant: the loop goes on to the remaining slots after a confirmation
RECURSIVE confirm_vote_slots_all(_, _, _, _, _, _)
confirm_vote_slots_all(vote_slots, j, signature, finalized_slot, tracker, calls) ==
    IF j > Len(vote_slots) THEN [tracker |-> tracker, value |-> None, calls |-> calls]
    ELSE LET vote_info == vote_slots[j]
         IN  IF VoteSlotInfo_is_new_vote(vote_info)
             THEN LET r == confirm_vote(tracker, signature, vote_info.slot, finalized_slot)
                      call == [signature |-> signature, vote_info |-> vote_info,
                               finalized_slot |-> finalized_slot, ret |-> r.ret]
                      rest == confirm_vote_slots_all(vote_slots, j + 1, signature,
                                  finalized_slot, r.tracker, Append(calls, call))
                  IN  [rest EXCEPT !.value = IF r.ret # None THEN r.ret ELSE @]
             ELSE confirm_vote_slots_all(vote_slots, j + 1, signature, finalized_slot,
                                         tracker, calls)

\* the loop over the decoded slots of one instruction, from slot j on;
\* calls is the record of the confirm_vote invocations made
RECURSIVE confirm_vote_slots(_, _, _, _, _, _)
confirm_vote_slots(vote_slots, j, signature, finalized_slot, tracker, calls) ==
    IF j > Len(vote_slots) THEN [tracker |-> tracker, value |-> None, calls |-> calls]
    ELSE LET vote_info == vote_slots[j]
         IN  IF VoteSlotInfo_is_new_vote(vote_info)
             THEN LET r == confirm_vote(tracker, signature, vote_info.slot, finalized_slot)
                      call == [signature |-> signature, vote_info |-> vote_info,
                               finalized_slot |-> finalized_slot, ret |-> r.ret]
                  IN  IF r.ret # None
                      THEN [tracker |-> r.tracker, value |-> r.ret,
                            calls |-> Append(calls, call)]
                      ELSE confirm_vote_slots(vote_slots, j + 1, signature, finalized_slot,
                                              r.tracker, Append(calls, call))
             ELSE confirm_vote_slots(vote_slots, j + 1, signature, finalized_slot,
                                     tracker, calls)

\* the instruction loop of process_transaction_in_block, from instruction i on
RECURSIVE block_instructions(_, _, _, _, _, _)
block_instructions(message, i, signature, finalized_slot, tracker, calls) ==
    IF i > Len(message.instructions)
    THEN [tracker |-> tracker, ok |-> TRUE, value |-> None, calls |-> calls]
    ELSE LET instruction == message.instructions[i]
             program_account == vec_get(message.account_keys, instruction.program_id_index)
         IN  IF program_account # None /\ program_account[1] = VOTE_PROGRAM_ID
             THEN LET parsed == parse_vote_instruction_data(instruction.data)
                      r == confirm_vote_slots(parsed.value, 1, signature, finalized_slot,
                                              tracker, calls)
                  IN  IF ~parsed.ok
                      THEN [tracker |-> tracker, ok |-> FALSE, value |-> None,
                            calls |-> calls]
                      ELSE IF r.value # None
                      THEN [tracker |-> r.tracker, ok |-> TRUE, value |-> r.value,
                            calls |-> r.calls]
                      ELSE block_instructions(message, i + 1, signature, finalized_slot,
                                              r.tracker, r.calls)
             ELSE block_instructions(message, i + 1, signature, finalized_slot,
                                     tracker, calls)

\* Result<Option<ConfirmedVote>>, with the tracker afterwards
process_transaction_in_block(transaction, signature, finalized_slot, tracker, calls) ==
    IF transaction.message = None
    THEN [tracker |-> tracker, ok |-> TRUE, value |-> None, calls |-> calls]
    ELSE block_instructions(transaction.message[1], 1, signature, finalized_slot,
                            tracker, calls)

\* the transaction loop of process_finalized_block, from transaction n on
RECURSIVE block_transactions(_, _, _, _, _, _, _)
block_transactions(transactions, n, finalized_slot, tracker, order, confirmed_votes, calls) ==
    IF n > Len(transactions)
    THEN [tracker |-> tracker, ok |-> TRUE, value |-> confirmed_votes, calls |-> calls]
    ELSE LET tx_info == transactions[n]
         IN  IF tx_info.transaction = None \/ tx_info.transaction[1].signatures = <<>>
             THEN block_transactions(transactions, n + 1, finalized_slot, tracker, order,
                                     confirmed_votes, calls)
             ELSE LET transaction == tx_info.transaction[1]
                      cached == get_or_cache_signature(tracker,
                                    Head(transaction.signatures), order)
                      r == process_transaction_in_block(transaction, cached.signature,
                               finalized_slot, cached.tracker, calls)
                  IN  IF ~r.ok
                      THEN [tracker |-> r.tracker, ok |-> FALSE, value |-> <<>>,
                            calls |-> r.calls]
                      ELSE block_transactions(transactions, n + 1, finalized_slot,
                               r.tracker, order,
                               IF r.value # None THEN Append(confirmed_votes, r.value[1])
                               ELSE confirmed_votes,
                               r.calls)

\* mutant: the slot is marked only after its transactions were processed
\* without an error
process_finalized_block_marks_on_success(block_update, tracker, order) ==
    IF has_processed_slot(tracker, block_update.slot)
    THEN [tracker |-> tracker, ok |-> TRUE, value |-> <<>>, calls |-> <<>>]
    ELSE LET r == block_transactions(block_update.transactions, 1, block_update.slot,
                                     tracker, order, <<>>, <<>>)
         IN  IF r.ok
             THEN [r EXCEPT !.tracker = mark_slot_processed(r.tracker, block_update.slot)]
             ELSE r

\* mutant: a slot is processed again although it is in the processed-slots ring
process_finalized_block_no_dedup(block_update, tracker, order) ==
    block_transactions(block_update.transactions, 1, block_update.slot,
                       mark_slot_processed(tracker, block_update.slot),
                       order, <<>>, <<>>)

\* Result<Vec<ConfirmedVote>>, with the tracker afterwards
process_finalized_block(block_update, tracker, order) ==
    IF has_processed_slot(tracker, block_update.slot)
    THEN [tracker |-> tracker, ok |-> TRUE, value |-> <<>>, calls |-> <<>>]
    ELSE block_transactions(block_update.transactions, 1, block_update.slot,
                            mark_slot_processed(tracker, block_update.slot),
                            order, <<>>, <<>>)

(***************************************************************************)
(* Inputs: the updates the stream can deliver                              *)
(***************************************************************************)
\* account_keys of every message: index 0 is another program, index 1 the
\* vote program, any larger index is out of range
AccountKeys == <<"ComputeBudget111111111111111111111111111111", VOTE_PROGRAM_ID>>

Lockout(slot, confirmation_count) ==
    [slot |-> slot, confirmation_count |-> confirmation_count]

Malformed == [kind |-> "Malformed"]
TowerSync(lockouts) == [kind |-> "TowerSync", lockouts |-> lockouts]
Vote(slots) == [kind |-> "Vote", slots |-> slots]

Instruction(program_id_index, data) ==
    [program_id_index |-> program_id_index, data |-> data]

\* vote-program instructions: one new vote, a tower whose newest lockout is
\* the new vote, a tower replay without a new vote, a legacy vote on two
\* slots, and bytes that do not deserialize
NewVote1000 == Instruction(1, TowerSync(<<Lockout(1000, 1)>>))
NewVote1200 == Instruction(1, TowerSync(<<Lockout(1000, 2), Lockout(1200, 1)>>))
TowerReplay == Instruction(1, TowerSync(<<Lockout(1000, 2)>>))
LegacyVote == Instruction(1, Vote(<<1000, 1200>>))
BadBytes == Instruction(1, Malformed)
\* the same payload under another program, and under an index past account_keys
OtherProgram == Instruction(0, Vote(<<1000, 1200>>))
NoProgram == Instruction(2, Vote(<<1000, 1200>>))

\* messages that vote on nothing later than slot 1000
EarlyInstructionLists ==
    {<<>>, <<NewVote1000>>, <<TowerReplay>>, <<BadBytes>>,
     <<NewVote1000, BadBytes>>, <<BadBytes, NewVote1000>>,
     <<TowerReplay, NewVote1000>>}

\* messages with a vote on slot 1200
LateInstructionLists ==
    {<<NewVote1200>>, <<LegacyVote>>, <<OtherProgram>>, <<NoProgram>>,
     <<NewVote1000, NewVote1200>>, <<OtherProgram, LegacyVote>>}

InstructionLists == EarlyInstructionLists \cup LateInstructionLists

\* what the second signature carries in a block
CoreInstructionLists == {<<NewVote1000>>, <<LegacyVote>>, <<BadBytes>>}

Message(instructions) ==
    [account_keys |-> AccountKeys, instructions |-> instructions]

\* SubscribeUpdateTransaction
TxUpdate(slot, is_vote, signature, instructions) ==
    [slot |-> slot,
     transaction |-> Some([is_vote |-> is_vote, signature |-> signature,
                           transaction |-> Some([message |-> Some(Message(instructions))])])]

TxUpdates ==
    {TxUpdate(1000, TRUE, 1, l) : l \in EarlyInstructionLists}
    \cup {TxUpdate(1200, TRUE, 1, l) : l \in LateInstructionLists}
    \cup {TxUpdate(1000, TRUE, 2, <<NewVote1000>>)}
    \cup {TxUpdate(1000, FALSE, 1, <<LegacyVote>>)}
    \cup {[slot |-> 1000, transaction |-> None],
          [slot |-> 1000,
           transaction |-> Some([is_vote |-> TRUE, signature |-> 1,
                                 transaction |-> None])],
          [slot |-> 1000,
           transaction |-> Some([is_vote |-> TRUE, signature |-> 1,
                                 transaction |-> Some([message |-> None])])]}

\* SubscribeUpdateTransactionInfo of a block
BlockTx(signature, instructions) ==
    [transaction |-> Some([signatures |-> <<signature>>,
                           message |-> Some(Message(instructions))])]

BlockTxLists ==
    {<<>>} \cup {<<BlockTx(1, l)>> : l \in InstructionLists}
           \cup {<<BlockTx(1, x), BlockTx(2, y)>> :
                    x \in CoreInstructionLists, y \in CoreInstructionLists}
           \cup {<<[transaction |-> None], BlockTx(2, <<NewVote1000>>)>>,
                 <<[transaction |-> Some([signatures |-> <<>>,
                                          message |-> Some(Message(<<LegacyVote>>))])]>>,
                 <<[transaction |-> Some([signatures |-> <<1>>, message |-> None])]>>}

\* SubscribeUpdateBlock
BlockUpdates ==
    {[slot |-> slot, transactions |-> l] : slot \in BlockSlots, l \in BlockTxLists}

\* the new-vote slots the vote-program instructions of a transaction update
\* carry on the wire (read off the update itself)
RECURSIVE CarriedNewVotes(_)
CarriedNewVotes(instructions) ==
    IF instructions = <<>> THEN {}
    ELSE LET i == Head(instructions)
             here == IF i.program_id_index # 1 THEN {}
                     ELSE IF i.data.kind = "Vote"
                          THEN {i.data.slots[n] : n \in DOMAIN i.data.slots}
                     ELSE IF i.data.kind = "TowerSync"
                          THEN {i.data.lockouts[n].slot :
                                   n \in {m \in DOMAIN i.data.lockouts :
                                             i.data.lockouts[m].confirmation_count = 1}}
                     ELSE {}
         IN  here \cup CarriedNewVotes(Tail(instructions))

\* the new-vote slots of the last vote-program instruction that carries
\* any, among those before the first payload that does not deserialize
RECURSIVE FinalNewVotes(_, _)
FinalNewVotes(instructions, so_far) ==
    IF instructions = <<>> THEN so_far
    ELSE LET i == Head(instructions)
             here == CarriedNewVotes(<<i>>)
         IN  IF i.program_id_index = 1 /\ i.data.kind = "Malformed" THEN so_far
             ELSE FinalNewVotes(Tail(instructions), IF here # {} THEN here ELSE so_far)

\* what `last` keeps of a transaction update
TxFacts(tx_update) ==
    IF tx_update.transaction = None
    THEN [present |-> FALSE, is_vote |-> FALSE, signature |-> 0, new_votes |-> {},
          final_new_votes |-> {}]
    ELSE LET transaction == tx_update.transaction[1]
             has_message == /\ transaction.transaction # None
                            /\ transaction.transaction[1].message # None
         IN  [present |-> TRUE, is_vote |-> transaction.is_vote,
              signature |-> transaction.signature,
              new_votes |-> IF has_message
                            THEN CarriedNewVotes(
                                     transaction.transaction[1].message[1].instructions)
                            ELSE {},
              final_new_votes |->
                  IF has_message
                  THEN FinalNewVotes(transaction.transaction[1].message[1].instructions, {})
                  ELSE {}]

\* the new-vote slots a message carries, in wire order and with repeats, up
\* to its first vote-program payload that does not deserialize
RECURSIVE OrderedNewVotes(_)
OrderedNewVotes(instructions) ==
    IF instructions = <<>> THEN <<>>
    ELSE LET i == Head(instructions)
         IN  IF i.program_id_index # 1 THEN OrderedNewVotes(Tail(instructions))
             ELSE IF i.data.kind = "Malformed" THEN <<>>
             ELSE IF i.data.kind = "Vote"
                  THEN i.data.slots \o OrderedNewVotes(Tail(instructions))
             ELSE LET fresh == SelectSeq(i.data.lockouts,
                                         LAMBDA l : l.confirmation_count = 1)
                  IN  [n \in DOMAIN fresh |-> fresh[n].slot]
                          \o OrderedNewVotes(Tail(instructions))

HasMalformed(instructions) ==
    \E n \in DOMAIN instructions :
        /\ instructions[n].program_id_index = 1
        /\ instructions[n].data.kind = "Malformed"

\* what `last` keeps of a block update: one record per transaction that has
\* a first signature, in block order
RECURSIVE BlockFacts(_)
BlockFacts(transactions) ==
    IF transactions = <<>> THEN <<>>
    ELSE LET tx_info == Head(transactions)
         IN  IF tx_info.transaction = None \/ tx_info.transaction[1].signatures = <<>>
             THEN BlockFacts(Tail(transactions))
             ELSE LET transaction == tx_info.transaction[1]
                      instructions == IF transaction.message = None THEN <<>>
                                      ELSE transaction.message[1].instructions
                  IN  <<[signature |-> fd_bs58_encode_64(Head(transaction.signatures)),
                         new_votes |-> CarriedNewVotes(instructions),
                         slots |-> OrderedNewVotes(instructions),
                         malformed |-> HasMalformed(instructions)]>>
                      \o BlockFacts(Tail(transactions))

\* the key orders that can matter to this call: one when nothing can be evicted
OrdersFor(tracker) ==
    IF Cardinality(DOMAIN tracker.signature_cache.cache) + Cardinality(SigBytes)
          > tracker.signature_cache.max_entries
    THEN KeyOrders
    ELSE {CHOOSE o \in KeyOrders : TRUE}

(***************************************************************************)
(* tokio::sync::mpsc and tokio::sync::RwLock as main.rs uses them          *)
(***************************************************************************)
\* mpsc::channel(capacity): a bounded FIFO buffer; rx_closed once the
\* receiver is dropped, tx_closed once every sender is dropped
mpsc_channel(capacity) ==
    [buffer |-> <<>>, capacity |-> capacity, rx_closed |-> FALSE, tx_closed |-> FALSE]

\* mutant: send completes although the buffer is full
mpsc_send_ready_unbounded(channel) == TRUE

\* Sender::send(..).await completes: there is room, or the receiver is gone
mpsc_send_ready(channel) ==
    channel.rx_closed \/ Len(channel.buffer) < channel.capacity

\* Sender::send once it completes: Err when the receiver is gone
mpsc_send(channel, item) ==
    IF channel.rx_closed THEN [channel |-> channel, ok |-> FALSE]
    ELSE [channel |-> [channel EXCEPT !.buffer = Append(@, item)], ok |-> TRUE]

\* Receiver::recv().await completes: an item is buffered, or all senders are gone
mpsc_recv_ready(channel) == channel.buffer # <<>> \/ channel.tx_closed

\* Receiver::recv once it completes: None when closed and drained
mpsc_recv(channel) ==
    IF channel.buffer # <<>>
    THEN [channel |-> [channel EXCEPT !.buffer = Tail(@)],
          value |-> Some(Head(channel.buffer))]
    ELSE [channel |-> channel, value |-> None]

\* dropping the receiver discards what is buffered
mpsc_drop_receiver(channel) == [channel EXCEPT !.buffer = <<>>, !.rx_closed = TRUE]

mpsc_drop_sender(channel) == [channel EXCEPT !.tx_closed = TRUE]

\* RwLock::new: the tasks holding a write guard and those holding a read guard
RwLock_new == [writers |-> {}, readers |-> {}]

\* mutant: a write guard is handed out whoever holds the lock
RwLock_write_ready_always(lock) == TRUE

\* RwLock::write().await completes
RwLock_write_ready(lock) == lock.writers = {} /\ lock.readers = {}

RwLock_write(lock, task) == [lock EXCEPT !.writers = @ \cup {task}]

\* RwLock::read().await completes
RwLock_read_ready(lock) == lock.writers = {}

RwLock_read(lock, task) == [lock EXCEPT !.readers = @ \cup {task}]

\* mutant: the guard outlives the iteration
RwLock_drop_leaks(lock, task) == lock

\* the guard of the task goes out of scope
RwLock_drop(lock, task) ==
    [lock EXCEPT !.writers = @ \ {task}, !.readers = @ \ {task}]

(***************************************************************************)
(* What the transport can deliver to the classification loop               *)
(***************************************************************************)
\* a vote transaction with one new vote, and one whose payload does not decode
PipelineTxUpdates ==
    {TxUpdate(1000, TRUE, 1, <<NewVote1000>>), TxUpdate(1000, TRUE, 1, <<BadBytes>>)}

\* a block whose transaction does not decode, and a block of two votes
PipelineBlockUpdates ==
    {[slot |-> 1004, transactions |-> <<BlockTx(1, <<BadBytes>>)>>],
     [slot |-> 1200, transactions |-> <<BlockTx(1, <<NewVote1000>>),
                                        BlockTx(2, <<NewVote1000>>)>>]}

\* the id-th item of the stream: Ok(update) of one of the kinds of
\* UpdateOneof, or Err(status)
Messages(id) ==
    {[kind |-> "Transaction", id |-> id, update |-> u] : u \in PipelineTxUpdates}
    \cup {[kind |-> "Block", id |-> id, update |-> u] : u \in PipelineBlockUpdates}
    \cup {[kind |-> k, id |-> id, update |-> None] : k \in {"Ping", "Other", "Err"}}

CLEANUP_CHANNEL_CAPACITY == 1

\* the state main() has built when the tasks are spawned
PipelineInit ==
    /\ stream = <<>>
    /\ supplied = 0
    /\ subscribe_tx = <<>>
    /\ tx_channel = mpsc_channel(QueueCapacity)
    /\ block_channel = mpsc_channel(QueueCapacity)
    /\ cleanup_channel = mpsc_channel(CLEANUP_CHANNEL_CAPACITY)
    /\ vote_tracker_lock = RwLock_new
    /\ stats_lock = RwLock_new
    /\ stream_task = [pc |-> "next", hand |-> None, log |-> <<>>]
    /\ tx_task = [pc |-> "recv", hand |-> None, log |-> <<>>]
    /\ dashboard_task = [pc |-> "select", hand |-> None, confirmed_votes |-> <<>>,
                         log |-> <<>>, snapshot |-> None]
    /\ main_task = [pc |-> "select", cleanup_sent |-> 0]

(***************************************************************************)
(* The program: tx_task and dashboard_task of main.rs, each handling one   *)
(* update under the writer lock(s) it takes                                *)
(***************************************************************************)
ProgramInit ==
    /\ vote_tracker = VoteTracker_new(0)
    /\ stats = PerformanceStats_new
    /\ now = 0
    /\ handled = 0
    /\ last = [op |-> "init"]
    /\ audit = <<>>
    /\ PipelineInit

Init ==
    /\ ProgramInit
    /\ recorded = <<>>
    /\ ring = CircularBuffer_new(1)
    /\ pushes = <<>>

\* tx_task: one transaction update off the queue
TxTask ==
    \E tx_update \in TxUpdates :
    \E order \in OrdersFor(vote_tracker) :
    \E r \in {process_vote_transaction(tx_update, vote_tracker, now, order)} :
            /\ handled < MaxUpdates
            /\ vote_tracker.pending_count < MaxPendingCount
            /\ handled' = handled + 1
            /\ vote_tracker' = r.tracker
            /\ last' = [op |-> "process_vote_transaction", slot |-> tx_update.slot,
                        tx |-> TxFacts(tx_update), ok |-> r.ok,
                        pending_before |-> vote_tracker.pending_votes]
            /\ UNCHANGED <<stats, now>>
            /\ UNCHANGED <<pipeline_vars, audit, unit_vars>>

\* dashboard_task: one block update off the queue; its confirmed votes are
\* recorded unless block processing returned an error
DashboardBlockFrom(block_updates) ==
    \E block_update \in block_updates :
    \E order \in OrdersFor(vote_tracker) :
    \E r \in {process_finalized_block(block_update, vote_tracker, order)} :
    \E sink \in SinkOutcomes(r.value, PerformanceFilterConfig_default) :
    \E rec \in {record_confirmed_votes(stats, audit, r.value,
                                       PerformanceFilterConfig_default, sink)} :
            /\ handled < MaxUpdates
            /\ handled' = handled + 1
            /\ vote_tracker' = r.tracker
            /\ stats' = rec.stats
            /\ audit' = rec.file
            /\ last' = [op |-> "process_finalized_block",
                        slot |-> block_update.slot,
                        transactions |-> Len(block_update.transactions),
                        block |-> BlockFacts(block_update.transactions),
                        ok |-> r.ok, value |-> r.value, calls |-> r.calls,
                        errors |-> rec.errors]
            /\ UNCHANGED now
            /\ UNCHANGED <<pipeline_vars, unit_vars>>

DashboardBlock == DashboardBlockFrom(BlockUpdates)

\* time passes
Tick ==
    /\ now < MaxNow
    /\ now' = now + TickSecs
    /\ last' = [op |-> "tick"]
    /\ UNCHANGED <<vote_tracker, stats, handled>>
    /\ UNCHANGED <<pipeline_vars, audit, unit_vars>>

Next == TxTask \/ DashboardBlock \/ Tick

Spec == Init /\ [][Next]_vars

(***************************************************************************)
(* Direct use of the public VoteTracker methods                            *)
(***************************************************************************)
ApiAddPendingVote ==
    \E signature \in Signatures, voted_slots \in SUBSET VotedSlots,
       transaction_slot \in VotedSlots :
        LET pending == PendingVote(signature, voted_slots, transaction_slot,
                                   Vote(<<1000, 1200>>))
        IN  /\ handled < MaxUpdates
            /\ vote_tracker.pending_count < MaxPendingCount
            /\ handled' = handled + 1
            /\ vote_tracker' = add_pending_vote(vote_tracker, pending, now)
            /\ last' = [op |-> "add_pending_vote", pending |-> pending]
            /\ UNCHANGED <<stats, now>>
            /\ UNCHANGED <<pipeline_vars, audit, unit_vars>>

ApiConfirmVote ==
    \E signature \in Signatures, voted_slot \in VotedSlots, finalized_slot \in Slots :
        LET r == confirm_vote(vote_tracker, signature, voted_slot, finalized_slot)
        IN  /\ handled < MaxUpdates
            /\ CircularBuffer_len(vote_tracker.confirmed_votes) < MaxConfirmed
            /\ handled' = handled + 1
            /\ vote_tracker' = r.tracker
            /\ last' = [op |-> "confirm_vote", signature |-> signature,
                        voted_slot |-> voted_slot, finalized_slot |-> finalized_slot,
                        pending_before |->
                            IF signature \in DOMAIN vote_tracker.pending_votes
                            THEN Some(vote_tracker.pending_votes[signature])
                            ELSE None,
                        ret |-> r.ret,
                        prior |-> IF last.op = "confirm_vote"
                                  THEN Some([signature |-> last.signature,
                                             voted_slot |-> last.voted_slot,
                                             pending_before |-> last.pending_before,
                                             ret |-> last.ret])
                                  ELSE None]
            /\ UNCHANGED <<stats, now>>
            /\ UNCHANGED <<pipeline_vars, audit, unit_vars>>

ApiMarkSlotProcessed ==
    \E slot \in BlockSlots :
        /\ handled < MaxUpdates
        /\ CircularBuffer_len(vote_tracker.processed_slots) < MaxProcessed
        /\ handled' = handled + 1
        /\ vote_tracker' = mark_slot_processed(vote_tracker, slot)
        /\ last' = [op |-> "mark_slot_processed", slot |-> slot]
        /\ UNCHANGED <<stats, now>>
        /\ UNCHANGED <<pipeline_vars, audit, unit_vars>>

NextApi == ApiAddPendingVote \/ ApiConfirmVote \/ ApiMarkSlotProcessed \/ Tick

SpecApi == Init /\ [][NextApi]_vars

(***************************************************************************)
(* The eviction sweep of add_pending_vote, exercised on its own            *)
(***************************************************************************)
\* the pending entries are seen in slot 0 and in slots around the cutoffs;
\* the slots marked processed are one below the 100-slot window, one above it
SweepAddPendingVote ==
    \E signature \in Signatures, transaction_slot \in {0, 1000, 1100, 1101} :
        LET pending == PendingVote(signature, {1000}, transaction_slot,
                                   Vote(<<1000>>))
        IN  /\ handled < MaxSweepCalls
            /\ handled' = handled + 1
            /\ vote_tracker' = add_pending_vote(vote_tracker, pending, now)
            /\ last' = [op |-> "add_pending_vote", pending |-> pending,
                        pending_before |-> vote_tracker.pending_votes,
                        swept |-> now - vote_tracker.last_cleanup_time
                                      >= CLEANUP_INTERVAL_SECS]
            /\ UNCHANGED <<stats, now>>
            /\ UNCHANGED <<pipeline_vars, audit, unit_vars>>

SweepMarkSlotProcessed ==
    \E slot \in {50, 1200} :
        /\ handled < MaxSweepCalls
        /\ handled' = handled + 1
        /\ vote_tracker' = mark_slot_processed(vote_tracker, slot)
        /\ last' = [op |-> "mark_slot_processed", slot |-> slot]
        /\ UNCHANGED <<stats, now>>
        /\ UNCHANGED <<pipeline_vars, audit, unit_vars>>

NextSweep == SweepAddPendingVote \/ SweepMarkSlotProcessed \/ Tick

SpecSweep == Init /\ [][NextSweep]_vars

(***************************************************************************)
(* Inserts, marks and block processing (which calls confirm_vote), over    *)
(* two sweep intervals                                                     *)
(***************************************************************************)
\* time passes, up to two sweep intervals
SweepTick ==
    /\ now < MaxSweepNow
    /\ now' = now + TickSecs
    /\ last' = [op |-> "tick"]
    /\ UNCHANGED <<vote_tracker, stats, handled>>
    /\ UNCHANGED <<pipeline_vars, audit, unit_vars>>

\* the blocks processed next to the sweep: one that confirms the pending
\* vote on slot 1000 of the first signature, one that fails to decode
CleanupBlock ==
    DashboardBlockFrom(
        {[slot |-> 1200, transactions |-> <<BlockTx(1, <<NewVote1000>>)>>],
         [slot |-> 1004, transactions |-> <<BlockTx(1, <<BadBytes>>)>>]})

NextCleanup ==
    \/ SweepAddPendingVote
    \/ SweepMarkSlotProcessed
    \/ CleanupBlock
    \/ SweepTick

SpecCleanup == Init /\ [][NextCleanup]_vars

(***************************************************************************)
(* The signature interner on its own, through get_or_cache_signature       *)
(***************************************************************************)
\* the 64-byte keys looked up: one more than the largest capacity
InternerKeys == 1..(MaxInternerEntries + 1)

\* the orders in which FxHashMap::keys() may enumerate these keys
InternerKeyOrders ==
    {o \in [1..Cardinality(InternerKeys) -> InternerKeys] :
        \A i, j \in DOMAIN o : i # j => o[i] # o[j]}

\* a tracker whose interner has the capacity
TrackerWithCache(max_entries) ==
    [VoteTracker_new(0) EXCEPT !.signature_cache = SignatureCache_new(max_entries)]

InitInterner ==
    /\ vote_tracker \in {TrackerWithCache(n) : n \in 1..MaxInternerEntries}
    /\ stats = PerformanceStats_new
    /\ now = 0
    /\ handled = 0
    /\ last = [op |-> "init"]
    /\ audit = <<>>
    /\ PipelineInit
    /\ recorded = <<>>
    /\ ring = CircularBuffer_new(1)
    /\ pushes = <<>>

GetOrCacheSignature ==
    \E signature_bytes \in InternerKeys, order \in InternerKeyOrders :
    \E r \in {get_or_cache_signature(vote_tracker, signature_bytes, order)} :
        /\ handled < MaxInternerCalls
        /\ handled' = handled + 1
        /\ vote_tracker' = r.tracker
        /\ last' = [op |-> "get_or_cache_signature",
                    signature_bytes |-> signature_bytes, signature |-> r.signature]
        /\ UNCHANGED <<stats, now>>
        /\ UNCHANGED <<pipeline_vars, audit, unit_vars>>

NextInterner == GetOrCacheSignature

SpecInterner == InitInterner /\ [][NextInterner]_vars

(***************************************************************************)
(* Intake and block processing on a tracker whose interner is small enough *)
(* to evict between the two                                                *)
(***************************************************************************)
\* blocks with the votes on slot 1000 of both signatures, and of the second
IdentityBlock ==
    DashboardBlockFrom(
        {[slot |-> 1200, transactions |-> <<BlockTx(1, <<NewVote1000>>),
                                            BlockTx(2, <<NewVote1000>>)>>],
         [slot |-> 1004, transactions |-> <<BlockTx(2, <<NewVote1000>>)>>]})

SpecIdentity == InitInterner /\ [][TxTask \/ IdentityBlock]_vars

(***************************************************************************)
(* A validator that keeps voting while its early votes are never finalized *)
(***************************************************************************)
\* the finalized blocks are all more than 100 slots past slot 1000
\* a vote transaction is intaken. pending_count is capped between two
\* sweeps; an insert that sweeps resets it
EvictIntake ==
    \E signature \in Signatures, transaction_slot \in {1000, 1200} :
        LET pending == PendingVote(signature, {transaction_slot}, transaction_slot,
                                   Vote(<<transaction_slot>>))
        IN  /\ \/ vote_tracker.pending_count < MaxPendingCount
               \/ now - vote_tracker.last_cleanup_time >= CLEANUP_INTERVAL_SECS
            /\ vote_tracker' = add_pending_vote(vote_tracker, pending, now)
            /\ last' = [op |-> "add_pending_vote", pending |-> pending,
                        evicted |-> (DOMAIN vote_tracker.pending_votes
                                        \cup {pending.signature})
                                    \ DOMAIN vote_tracker'.pending_votes]
            /\ UNCHANGED <<stats, now, handled>>
            /\ UNCHANGED <<pipeline_vars, audit, unit_vars>>

\* a finalized block is processed: its slot is marked unless it is in the ring
EvictMark ==
    \E slot \in {1200, 1300} :
        /\ ~has_processed_slot(vote_tracker, slot)
        /\ vote_tracker' = mark_slot_processed(vote_tracker, slot)
        /\ last' = [op |-> "mark_slot_processed", slot |-> slot]
        /\ UNCHANGED <<stats, now, handled>>
        /\ UNCHANGED <<pipeline_vars, audit, unit_vars>>

\* the vote on slot 1200 of a pending signature is found in the finalized
\* block of slot 1300
EvictConfirm ==
    \E signature \in DOMAIN vote_tracker.pending_votes :
    \E r \in {confirm_vote(vote_tracker, signature, 1200, 1300)} :
        /\ CircularBuffer_len(vote_tracker.confirmed_votes) < MaxEvictConfirmed
        /\ vote_tracker' = r.tracker
        /\ last' = [op |-> "confirm_vote", signature |-> signature, ret |-> r.ret]
        /\ UNCHANGED <<stats, now, handled>>
        /\ UNCHANGED <<pipeline_vars, audit, unit_vars>>

NextEvict == EvictIntake \/ EvictMark \/ EvictConfirm \/ SweepTick

\* vote transactions keep being intaken, time keeps advancing and blocks
\* keep being finalized
SpecEvict ==
    /\ Init /\ [][NextEvict]_vars
    /\ WF_vars(EvictIntake) /\ WF_vars(SweepTick) /\ WF_vars(EvictMark)

(***************************************************************************)
(* The credit model on its own                                             *)
(***************************************************************************)
Latencies == 0..MaxLatency \cup {LargeLatency}

CreditsFromLatency ==
    \E latency \in Latencies :
        /\ last' = [op |-> "calculate_tvc_credits_from_latency", latency |-> latency,
                    ret |-> calculate_tvc_credits_from_latency(latency)]
        /\ UNCHANGED <<vote_tracker, stats, now, handled>>
        /\ UNCHANGED <<pipeline_vars, audit, unit_vars>>

CreditSlots == {0, 1, 2, 3, 18, 19, 20, 1000, 1004, 1200, LargeLatency}

CreditsAndLatency ==
    \E voted_slot \in CreditSlots, finalized_slot \in CreditSlots :
        /\ last' = [op |-> "calculate_tvc_credits", voted_slot |-> voted_slot,
                    finalized_slot |-> finalized_slot,
                    ret |-> calculate_tvc_credits(voted_slot, finalized_slot)]
        /\ UNCHANGED <<vote_tracker, stats, now, handled>>
        /\ UNCHANGED <<pipeline_vars, audit, unit_vars>>

NextCredit == CreditsFromLatency \/ CreditsAndLatency

SpecCredit == Init /\ [][NextCredit]_vars

(***************************************************************************)
(* CircularBuffer on its own                                               *)
(***************************************************************************)
\* rings of the small capacities, and the two rings VoteTracker::new builds
\* (capacities 100 and 50)
Rings ==
    {CircularBuffer_new(capacity) : capacity \in 1..MaxCapacity}
    \cup {VoteTracker_new(0).confirmed_votes, VoteTracker_new(0).processed_slots}

RingItems == {1000, 1004, 1200}

\* what the n-th push may push: any of the items into a small ring, the
\* slot 1000 + n into a ring of VoteTracker
ItemsFor(buf, n) == IF buf.capacity <= MaxCapacity THEN RingItems ELSE {1000 + n}

InitRing ==
    /\ ProgramInit
    /\ recorded = <<>>
    /\ ring \in Rings
    /\ pushes = <<>>

RingPush ==
    \E item \in ItemsFor(ring, Len(pushes) + 1) :
        /\ Len(pushes) < ring.capacity + MaxOverflow
        /\ ring' = CircularBuffer_push(ring, item)
        /\ pushes' = Append(pushes, item)
        /\ UNCHANGED <<vote_tracker, stats, now, handled, last, pipeline_vars, audit,
                       recorded>>

NextRing == RingPush

SpecRing == InitRing /\ [][NextRing]_vars

(***************************************************************************)
(* PerformanceStats on its own: add_confirmed_vote with the votes that     *)
(* confirm_vote builds                                                     *)
(***************************************************************************)
\* latencies of the votes recorded: one per tier that occurs (16, 14, 10
\* and 1 credits)
RecordLatencies == {0, 4, 8, 200}

\* the vote confirm_vote builds for a vote on slot 1000 finalized l slots later
RecordVote(l) ==
    LET lc == calculate_tvc_credits(1000, 1000 + l)
    IN  ConfirmedVote(fd_bs58_encode_64(1), 1000, 1000 + l, lc[1], lc[2])

\* how often the vote changes from one element of the sequence to the next
Switches(votes) ==
    Cardinality({n \in 1..(Len(votes) - 1) : votes[n] # votes[n + 1]})

AddConfirmedVoteOf(latencies) ==
    \E l \in latencies :
        /\ Len(recorded) < MaxRecords
        /\ Switches(Append(recorded, RecordVote(l))) <= MaxSwitches
        /\ stats' = add_confirmed_vote(stats, RecordVote(l))
        /\ recorded' = Append(recorded, RecordVote(l))
        /\ UNCHANGED <<vote_tracker, now, handled, last, pipeline_vars, audit, ring, pushes>>

AddConfirmedVote == AddConfirmedVoteOf(RecordLatencies)

NextRecord == AddConfirmedVote

SpecRecord == Init /\ [][NextRecord]_vars

\* latencies on both sides of the grace period of 2 slots, and of the
\* latency past which the credits stay at 1
AddBoundaryVote == AddConfirmedVoteOf({0, 2, 3, 17, 18})

SpecBoundary == Init /\ [][AddBoundaryVote]_vars

(***************************************************************************)
(* The audit filter on its own                                             *)
(***************************************************************************)
\* configurations: each bound set or unset, and tier lists in several spellings
FilterConfigs ==
    {PerformanceFilterConfig(enabled, min_latency, max_latency, min_tvc, max_tvc, levels) :
        enabled \in BOOLEAN,
        min_latency \in {None, Some(1)}, max_latency \in {None, Some(3)},
        min_tvc \in {None, Some(12)}, max_tvc \in {None, Some(15)},
        levels \in {<<>>, <<"poor", "critical">>, <<"Good">>, <<"OPTIMAL", "fair">>}}

FilterLatencies == {0, 1, 3, 4, 200}
FilterCredits == {1, 5, 8, 12, 13, 15, 16}

\* the call of add_confirmed_vote_with_config: the tier is that of the
\* credits; the predicate keeps no state, so one call per behaviour
ShouldSaveVote ==
    \E config \in FilterConfigs, latency \in FilterLatencies, tvc_credits \in FilterCredits :
        /\ last.op = "init"
        /\ last' = [op |-> "should_save_vote", config |-> config, latency |-> latency,
                    tvc_credits |-> tvc_credits,
                    ret |-> should_save_vote(config, latency, tvc_credits,
                                categorize_tvc_performance(tvc_credits))]
        /\ UNCHANGED <<vote_tracker, stats, now, handled>>
        /\ UNCHANGED <<pipeline_vars, audit, unit_vars>>

NextFilter == ShouldSaveVote

SpecFilter == Init /\ [][NextFilter]_vars

(***************************************************************************)
(* The pipeline of main.rs: the transport, stream_task, tx_task,           *)
(* dashboard_task and main, one action per step between two awaits         *)
(***************************************************************************)
\* the process has not exited: the runtime still polls the tasks
Running == main_task.pc # "exited"

data_vars == <<vote_tracker, stats, now, handled, last>>

\* everything of the pipeline but the dashboard task's own record
pipeline_except_dashboard ==
    <<stream, supplied, subscribe_tx, tx_channel, block_channel, cleanup_channel,
      vote_tracker_lock, stats_lock, stream_task, tx_task, main_task>>

\* the transport delivers the next message; nothing follows an Err
StreamDeliver ==
    /\ Running
    /\ supplied < MaxMessages
    /\ stream_task.pc # "done"
    /\ \A i \in DOMAIN stream : stream[i].kind # "Err"
    /\ \E message \in Messages(supplied + 1) : stream' = Append(stream, message)
    /\ supplied' = supplied + 1
    /\ UNCHANGED <<audit, unit_vars, data_vars, subscribe_tx, tx_channel, block_channel, cleanup_channel,
                   vote_tracker_lock, stats_lock, stream_task, tx_task,
                   dashboard_task, main_task>>

\* mutant: a keepalive is ignored like the other update kinds
stream_task_match_ignores_ping(message) ==
    CASE message.kind = "Transaction" -> "send_tx"
      [] message.kind = "Block" -> "send_block"
      [] message.kind = "Err" -> "done"
      [] OTHER -> "next"

\* mutant: a transport error is skipped like an unknown update kind
stream_task_match_ignores_err(message) ==
    CASE message.kind = "Transaction" -> "send_tx"
      [] message.kind = "Block" -> "send_block"
      [] message.kind = "Ping" -> "send_ping"
      [] OTHER -> "next"

\* where the match of the loop body goes for a message
stream_task_match(message) ==
    CASE message.kind = "Transaction" -> "send_tx"
      [] message.kind = "Block" -> "send_block"
      [] message.kind = "Ping" -> "send_ping"
      [] message.kind = "Err" -> "done"
      [] OTHER -> "next"

StreamEvent(event, message) ==
    [event |-> event, kind |-> message.kind, id |-> message.id]

\* stream.next().await yields a message and the match picks its arm
StreamNext ==
    /\ Running
    /\ stream_task.pc = "next"
    /\ stream # <<>>
    /\ LET message == Head(stream)
           pc == stream_task_match(message)
       IN  /\ stream' = Tail(stream)
           /\ stream_task' =
                  [pc |-> pc,
                   hand |-> IF pc \in {"next", "done"} THEN None ELSE Some(message),
                   log |-> Append(stream_task.log, StreamEvent("read", message))]
           /\ tx_channel' = IF pc = "done" THEN mpsc_drop_sender(tx_channel)
                            ELSE tx_channel
           /\ block_channel' = IF pc = "done" THEN mpsc_drop_sender(block_channel)
                               ELSE block_channel
    /\ UNCHANGED <<audit, unit_vars, data_vars, supplied, subscribe_tx, cleanup_channel,
                   vote_tracker_lock, stats_lock, tx_task, dashboard_task, main_task>>

\* the task after a send: back to the loop head, or out of the loop (and
\* both senders dropped) when the send failed
AfterSend(ok, event) ==
    /\ stream_task' =
           [pc |-> IF ok THEN "next" ELSE "done",
            hand |-> None,
            log |-> Append(stream_task.log,
                           StreamEvent(IF ok THEN event ELSE "failed", stream_task.hand[1]))]

\* tx_sender.send(sut).await completes
StreamSendTx ==
    /\ Running
    /\ stream_task.pc = "send_tx"
    /\ mpsc_send_ready(tx_channel)
    /\ LET r == mpsc_send(tx_channel, stream_task.hand[1])
       IN  /\ AfterSend(r.ok, "enqueue")
           /\ tx_channel' = IF r.ok THEN r.channel ELSE mpsc_drop_sender(r.channel)
           /\ block_channel' = IF r.ok THEN block_channel
                               ELSE mpsc_drop_sender(block_channel)
    /\ UNCHANGED <<audit, unit_vars, data_vars, stream, supplied, subscribe_tx, cleanup_channel,
                   vote_tracker_lock, stats_lock, tx_task, dashboard_task, main_task>>

\* block_sender.send(sub).await completes
StreamSendBlock ==
    /\ Running
    /\ stream_task.pc = "send_block"
    /\ mpsc_send_ready(block_channel)
    /\ LET r == mpsc_send(block_channel, stream_task.hand[1])
       IN  /\ AfterSend(r.ok, "enqueue")
           /\ block_channel' = IF r.ok THEN r.channel ELSE mpsc_drop_sender(r.channel)
           /\ tx_channel' = IF r.ok THEN tx_channel ELSE mpsc_drop_sender(tx_channel)
    /\ UNCHANGED <<audit, unit_vars, data_vars, stream, supplied, subscribe_tx, cleanup_channel,
                   vote_tracker_lock, stats_lock, tx_task, dashboard_task, main_task>>

\* subscribe_tx.send(ping_response).await completes, with Ok or with Err
StreamSendPing ==
    /\ Running
    /\ stream_task.pc = "send_ping"
    /\ \E ok \in BOOLEAN :
          /\ AfterSend(ok, "ack")
          /\ subscribe_tx' = IF ok THEN Append(subscribe_tx, [ping |-> [id |-> 1]])
                             ELSE subscribe_tx
          /\ tx_channel' = IF ok THEN tx_channel ELSE mpsc_drop_sender(tx_channel)
          /\ block_channel' = IF ok THEN block_channel
                              ELSE mpsc_drop_sender(block_channel)
    /\ UNCHANGED <<audit, unit_vars, data_vars, stream, supplied, cleanup_channel,
                   vote_tracker_lock, stats_lock, tx_task, dashboard_task, main_task>>


\* mutant: the intake loop ends on an error
tx_task_continue_breaks(ok) == IF ok THEN "recv" ELSE "done"

\* tx_task after process_vote_transaction returned: the error is logged and
\* the while loop goes on
tx_task_continue(ok) == "recv"

\* tx_receiver.recv().await completes: with an update, or with None, which
\* ends the loop and the task
TxRecv ==
    /\ Running
    /\ tx_task.pc = "recv"
    /\ mpsc_recv_ready(tx_channel)
    /\ LET r == mpsc_recv(tx_channel)
       IN  IF r.value = None
           THEN /\ tx_task' = [tx_task EXCEPT !.pc = "done"]
                /\ tx_channel' = mpsc_drop_receiver(r.channel)
           ELSE /\ tx_task' = [tx_task EXCEPT !.pc = "write", !.hand = r.value]
                /\ tx_channel' = r.channel
    /\ UNCHANGED <<audit, unit_vars, data_vars, stream, supplied, subscribe_tx, block_channel,
                   cleanup_channel, vote_tracker_lock, stats_lock, stream_task,
                   dashboard_task, main_task>>

\* vote_tracker_tx.write().await completes
TxWrite ==
    /\ Running
    /\ tx_task.pc = "write"
    /\ RwLock_write_ready(vote_tracker_lock)
    /\ vote_tracker_lock' = RwLock_write(vote_tracker_lock, "tx_task")
    /\ tx_task' = [tx_task EXCEPT !.pc = "process"]
    /\ UNCHANGED <<audit, unit_vars, data_vars, stream, supplied, subscribe_tx, tx_channel, block_channel,
                   cleanup_channel, stats_lock, stream_task, dashboard_task, main_task>>

\* process_vote_transaction runs under the guard, which is dropped at the
\* end of the iteration
TxProcess ==
    /\ Running
    /\ tx_task.pc = "process"
    /\ \E order \in OrdersFor(vote_tracker) :
       \E r \in {process_vote_transaction(tx_task.hand[1].update, vote_tracker,
                                          now, order)} :
              /\ vote_tracker' = r.tracker
              /\ tx_task' = [pc |-> tx_task_continue(r.ok), hand |-> None,
                             log |-> Append(tx_task.log,
                                            [id |-> tx_task.hand[1].id, ok |-> r.ok])]
    /\ vote_tracker_lock' = RwLock_drop(vote_tracker_lock, "tx_task")
    /\ tx_channel' = IF tx_task'.pc = "done" THEN mpsc_drop_receiver(tx_channel)
                     ELSE tx_channel
    /\ UNCHANGED <<audit, unit_vars, stats, now, handled, last, stream, supplied, subscribe_tx,
                   block_channel, cleanup_channel, stats_lock, stream_task,
                   dashboard_task, main_task>>

\* dashboard_task after process_finalized_block returned: `continue` on an
\* error, the statistics update when there are votes
dashboard_task_continue(ok, confirmed_votes) ==
    IF ok /\ confirmed_votes # <<>> THEN "stats_write" ELSE "select"

\* the cleanup_rx arm of the select: the loop breaks and the task ends,
\* dropping its receivers
DashCleanup ==
    /\ Running
    /\ dashboard_task.pc = "select"
    /\ mpsc_recv_ready(cleanup_channel)
    /\ dashboard_task' = [dashboard_task EXCEPT !.pc = "done"]
    /\ cleanup_channel' = mpsc_drop_receiver(mpsc_recv(cleanup_channel).channel)
    /\ block_channel' = mpsc_drop_receiver(block_channel)
    /\ UNCHANGED <<audit, unit_vars, data_vars, stream, supplied, subscribe_tx, tx_channel,
                   vote_tracker_lock, stats_lock, stream_task, tx_task, main_task>>

\* the block_receiver arm of the select: Some(block_update) is taken
DashBlock ==
    /\ Running
    /\ dashboard_task.pc = "select"
    /\ block_channel.buffer # <<>>
    /\ LET r == mpsc_recv(block_channel)
       IN  /\ dashboard_task' = [dashboard_task EXCEPT !.pc = "write", !.hand = r.value]
           /\ block_channel' = r.channel
    /\ UNCHANGED <<audit, unit_vars, data_vars, stream, supplied, subscribe_tx, tx_channel,
                   cleanup_channel, vote_tracker_lock, stats_lock, stream_task,
                   tx_task, main_task>>

\* vote_tracker_block.write().await completes
DashWrite ==
    /\ Running
    /\ dashboard_task.pc = "write"
    /\ RwLock_write_ready(vote_tracker_lock)
    /\ vote_tracker_lock' = RwLock_write(vote_tracker_lock, "dashboard_task")
    /\ dashboard_task' = [dashboard_task EXCEPT !.pc = "process"]
    /\ UNCHANGED <<audit, unit_vars, data_vars, stream, supplied, subscribe_tx, tx_channel, block_channel,
                   cleanup_channel, stats_lock, stream_task, tx_task, main_task>>

\* process_finalized_block runs under the guard, which is dropped at the
\* end of the inner block
DashProcess ==
    /\ Running
    /\ dashboard_task.pc = "process"
    /\ \E order \in OrdersFor(vote_tracker) :
       \E r \in {process_finalized_block(dashboard_task.hand[1].update,
                                         vote_tracker, order)} :
          LET pc == dashboard_task_continue(r.ok, r.value)
          IN  /\ vote_tracker' = r.tracker
              /\ dashboard_task' =
                     [dashboard_task EXCEPT
                         !.pc = pc,
                         !.hand = None,
                         !.confirmed_votes = IF pc = "stats_write" THEN r.value ELSE <<>>,
                         !.log = Append(@, [id |-> dashboard_task.hand[1].id,
                                            ok |-> r.ok, votes |-> Len(r.value)])]
    /\ vote_tracker_lock' = RwLock_drop(vote_tracker_lock, "dashboard_task")
    /\ block_channel' = IF dashboard_task'.pc = "done"
                        THEN mpsc_drop_receiver(block_channel) ELSE block_channel
    /\ cleanup_channel' = IF dashboard_task'.pc = "done"
                          THEN mpsc_drop_receiver(cleanup_channel) ELSE cleanup_channel
    /\ UNCHANGED <<audit, unit_vars, stats, now, handled, last, stream, supplied, subscribe_tx,
                   tx_channel, stats_lock, stream_task, tx_task, main_task>>

\* stats_block.write().await completes
DashStatsWrite ==
    /\ Running
    /\ dashboard_task.pc = "stats_write"
    /\ RwLock_write_ready(stats_lock)
    /\ stats_lock' = RwLock_write(stats_lock, "dashboard_task")
    /\ dashboard_task' = [dashboard_task EXCEPT !.pc = "record"]
    /\ UNCHANGED <<audit, unit_vars, data_vars, stream, supplied, subscribe_tx, tx_channel, block_channel,
                   cleanup_channel, vote_tracker_lock, stream_task, tx_task, main_task>>

\* add_confirmed_vote of the next vote of the block starts ...
DashRecordBegin ==
    /\ Running
    /\ dashboard_task.pc = "record"
    /\ stats' = add_confirmed_vote_begin(stats)
    /\ dashboard_task' = [dashboard_task EXCEPT !.pc = "recording"]
    /\ UNCHANGED <<audit, unit_vars, vote_tracker, now, handled, last, pipeline_except_dashboard>>

\* ... and finishes, and add_confirmed_vote_with_config hands the vote to the
\* audit sink, whose write succeeds or fails; after the last vote of the
\* block the guard is dropped
DashRecordFinish ==
    /\ Running
    /\ dashboard_task.pc = "recording"
    /\ stats' = add_confirmed_vote_finish(stats, Head(dashboard_task.confirmed_votes))
    /\ \E sink_ok \in BOOLEAN :
          audit' = add_confirmed_vote_with_config(stats, audit,
                       Head(dashboard_task.confirmed_votes), VOTE_ACCOUNT,
                       PerformanceFilterConfig_default, sink_ok).file
    /\ LET rest == Tail(dashboard_task.confirmed_votes)
       IN  /\ dashboard_task' = [dashboard_task EXCEPT
                                    !.pc = IF rest = <<>> THEN "select" ELSE "record",
                                    !.confirmed_votes = rest]
           /\ stats_lock' = IF rest = <<>> THEN RwLock_drop(stats_lock, "dashboard_task")
                            ELSE stats_lock
    /\ UNCHANGED <<unit_vars, vote_tracker, now, handled, last, stream, supplied,
                   subscribe_tx, tx_channel, block_channel, cleanup_channel,
                   vote_tracker_lock, stream_task, tx_task, main_task>>

\* the counters a rendered screen shows
render(self) ==
    [total_transactions |-> self.total_transactions,
     total_tvc_earned |-> self.total_tvc_earned,
     total_tvc_possible |-> self.total_tvc_possible,
     optimal_votes |-> self.optimal_votes,
     good_votes |-> self.good_votes,
     poor_votes |-> self.poor_votes]

\* the render_interval arm of the select: the statistics are read under a
\* read guard and painted
DashRender ==
    /\ Running
    /\ dashboard_task.pc = "select"
    /\ RwLock_read_ready(stats_lock)
    /\ dashboard_task' = [dashboard_task EXCEPT !.snapshot = Some(render(stats))]
    /\ stats_lock' = RwLock_drop(RwLock_read(stats_lock, "dashboard_task"),
                                 "dashboard_task")
    /\ UNCHANGED <<audit, unit_vars, data_vars, stream, supplied, subscribe_tx, tx_channel, block_channel,
                   cleanup_channel, vote_tracker_lock, stream_task, tx_task, main_task>>

\* the ctrl_c arm of main's select
MainCtrlC ==
    /\ main_task.pc = "select"
    /\ main_task' = [main_task EXCEPT !.pc = "cleanup"]
    /\ UNCHANGED <<audit, unit_vars, data_vars, stream, supplied, subscribe_tx, tx_channel, block_channel,
                   cleanup_channel, vote_tracker_lock, stats_lock, stream_task, tx_task,
                   dashboard_task>>

\* one of the three task handles completes: main returns
MainTaskDone ==
    /\ main_task.pc = "select"
    /\ \/ stream_task.pc = "done"
       \/ tx_task.pc = "done"
       \/ dashboard_task.pc = "done"
    /\ main_task' = [main_task EXCEPT !.pc = "exited"]
    /\ UNCHANGED <<audit, unit_vars, data_vars, stream, supplied, subscribe_tx, tx_channel, block_channel,
                   cleanup_channel, vote_tracker_lock, stats_lock, stream_task, tx_task,
                   dashboard_task>>

\* mutant: main waits until the dashboard task has ended
main_task_grace_over_joins(task) == task.pc = "done"

\* tokio::time::sleep(100 ms).await completes, whatever the dashboard task does
main_task_grace_over(task) == TRUE

\* cleanup_tx.send(()).await completes; a failure is logged
MainSendCleanup ==
    /\ main_task.pc = "cleanup"
    /\ mpsc_send_ready(cleanup_channel)
    /\ cleanup_channel' = mpsc_send(cleanup_channel, "cleanup").channel
    /\ main_task' = [pc |-> "sleep", cleanup_sent |-> main_task.cleanup_sent + 1]
    /\ UNCHANGED <<audit, unit_vars, data_vars, stream, supplied, subscribe_tx, tx_channel, block_channel,
                   vote_tracker_lock, stats_lock, stream_task, tx_task, dashboard_task>>

\* the grace delay is over and main returns: the process exits
MainExit ==
    /\ main_task.pc = "sleep"
    /\ main_task_grace_over(dashboard_task)
    /\ main_task' = [main_task EXCEPT !.pc = "exited"]
    /\ UNCHANGED <<audit, unit_vars, data_vars, stream, supplied, subscribe_tx, tx_channel, block_channel,
                   cleanup_channel, vote_tracker_lock, stats_lock, stream_task, tx_task,
                   dashboard_task>>

NextPipeline ==
    \/ StreamDeliver \/ StreamNext \/ StreamSendTx \/ StreamSendBlock \/ StreamSendPing
    \/ TxRecv \/ TxWrite \/ TxProcess
    \/ DashCleanup \/ DashBlock \/ DashWrite \/ DashProcess \/ DashStatsWrite
    \/ DashRecordBegin \/ DashRecordFinish \/ DashRender
    \/ MainCtrlC \/ MainTaskDone \/ MainSendCleanup \/ MainExit

SpecPipeline == Init /\ [][NextPipeline]_vars

\* main is never suspended for good: its sends and its timer complete
SpecPipelineFair ==
    SpecPipeline /\ WF_vars(MainSendCleanup) /\ WF_vars(MainExit)

\* the pipeline when no interrupt signal ever arrives: the ctrl_c arm of
\* main's select, and with it the cleanup notification, never happens
NextNoInterrupt ==
    \/ StreamDeliver \/ StreamNext \/ StreamSendTx \/ StreamSendBlock \/ StreamSendPing
    \/ TxRecv \/ TxWrite \/ TxProcess
    \/ DashBlock \/ DashWrite \/ DashProcess \/ DashStatsWrite
    \/ DashRecordBegin \/ DashRecordFinish \/ DashRender
    \/ MainTaskDone

\* main's select completes once one of its arms is ready
SpecNoInterrupt == Init /\ [][NextNoInterrupt]_vars /\ WF_vars(MainTaskDone)

(***************************************************************************)
(* Properties of confirm_vote, checked under SpecApi.  In a step of        *)
(* ApiConfirmVote, last' holds the call and its result, the unprimed       *)
(* tracker is the tracker before the call and the primed one after it.     *)
(***************************************************************************)
\* the vote confirm_vote is to produce for the call in last'
ExpectedVote ==
    LET latency == last'.finalized_slot - last'.voted_slot
    IN  [signature |-> last'.signature, voted_slot |-> last'.voted_slot,
         finalized_slot |-> last'.finalized_slot, latency |-> latency,
         tvc_credits |-> calculate_tvc_credits_from_latency(latency)]

ConfirmCall == last'.op = "confirm_vote"
OrderedCall == ConfirmCall /\ last'.finalized_slot >= last'.voted_slot
PendingBefore == last'.signature \in DOMAIN vote_tracker.pending_votes
MemberBefore ==
    /\ PendingBefore
    /\ last'.voted_slot \in vote_tracker.pending_votes[last'.signature].voted_slots

\* the ring content after one push
Pushed(buf, item) ==
    LET all == Append(CircularBuffer_iter(buf), item)
    IN  IF Len(all) > buf.capacity THEN Tail(all) ELSE all

TrackerUntouched ==
    /\ vote_tracker'.pending_votes = vote_tracker.pending_votes
    /\ vote_tracker'.pending_count = vote_tracker.pending_count
    /\ vote_tracker'.confirmed_votes = vote_tracker.confirmed_votes
    /\ vote_tracker'.processed_slots = vote_tracker.processed_slots

\* C1: confirm_vote(sig, voted, fin) with fin >= voted, sig pending and voted
\* one of its voted_slots removes the whole entry of sig (and no other
\* entry), returns the vote with latency fin - voted and the credits of that
\* latency, and appends that vote to the recent-confirmed ring.
C1_ConfirmPendingMember ==
    [][(OrderedCall /\ MemberBefore) =>
        /\ DOMAIN vote_tracker'.pending_votes =
               DOMAIN vote_tracker.pending_votes \ {last'.signature}
        /\ \A k \in DOMAIN vote_tracker'.pending_votes :
               vote_tracker'.pending_votes[k] = vote_tracker.pending_votes[k]
        /\ last'.ret = Some(ExpectedVote)
        /\ CircularBuffer_iter(vote_tracker'.confirmed_votes) =
               Pushed(vote_tracker.confirmed_votes, ExpectedVote)
        /\ vote_tracker'.processed_slots = vote_tracker.processed_slots]_vars

\* an entry with two voted slots was confirmed for one of them and is gone
C1_Witness ==
    /\ last.op = "confirm_vote"
    /\ last.pending_before # None
    /\ Cardinality(last.pending_before[1].voted_slots) = 2
    /\ last.voted_slot \in last.pending_before[1].voted_slots
    /\ last.ret # None
    /\ last.signature \notin DOMAIN vote_tracker.pending_votes
    /\ CircularBuffer_iter(vote_tracker.confirmed_votes) = <<last.ret[1]>>

C3_ConfirmNonMember ==
    [][(OrderedCall /\ PendingBefore /\ ~MemberBefore) =>
        /\ last'.ret = None
        /\ TrackerUntouched
        /\ \A m \in vote_tracker'.pending_votes[last'.signature].voted_slots :
           \A f \in {x \in Slots : x >= m} :
               LET r == confirm_vote(vote_tracker', last'.signature, m, f)
               IN  /\ r.ret # None
                   /\ last'.signature \notin DOMAIN r.tracker.pending_votes
                   /\ CircularBuffer_len(r.tracker.confirmed_votes) =
                          CircularBuffer_len(vote_tracker'.confirmed_votes) + 1]_vars

\* sig is pending with slot 1200 only, and was asked to confirm slot 1000
C3_Witness ==
    /\ last.op = "confirm_vote"
    /\ last.finalized_slot >= last.voted_slot
    /\ last.pending_before # None
    /\ last.pending_before[1].voted_slots # {}
    /\ last.voted_slot \notin last.pending_before[1].voted_slots
    /\ last.ret = None
    /\ last.signature \in DOMAIN vote_tracker.pending_votes

\* C4: confirm_vote(sig, voted, fin) with fin < voted returns nothing and
\* changes no tracker state, whether or not sig is pending.
C4_ConfirmRejectsOrder ==
    [][(ConfirmCall /\ last'.finalized_slot < last'.voted_slot) =>
        /\ last'.ret = None
        /\ vote_tracker' = vote_tracker]_vars

\* rejected although sig was pending with the very slot
C4_Witness ==
    /\ last.op = "confirm_vote"
    /\ last.finalized_slot < last.voted_slot
    /\ last.pending_before # None
    /\ last.voted_slot \in last.pending_before[1].voted_slots
    /\ last.ret = None
    /\ last.signature \in DOMAIN vote_tracker.pending_votes

C9_CreditsFromLatency ==
    /\ last.op = "calculate_tvc_credits_from_latency" =>
          /\ (last.latency <= 2 => last.ret = 16)
          /\ (last.latency > 2 => last.ret = Max(16 - (last.latency - 2), 1))
          /\ (last.latency >= 3 /\ last.latency <= 17 => last.ret = 18 - last.latency)
          /\ (last.latency >= 17 => last.ret = 1)
          /\ last.ret \in 1..16
    /\ last.op = "calculate_tvc_credits" =>
          LET latency == IF last.finalized_slot >= last.voted_slot
                         THEN last.finalized_slot - last.voted_slot ELSE 0
          IN  /\ last.ret[1] = latency
              /\ last.ret[2] = IF latency <= 2 THEN 16 ELSE Max(18 - latency, 1)

\* the latency at which 16 - penalty is exactly 0
C9_Witness ==
    /\ last.op = "calculate_tvc_credits_from_latency"
    /\ last.latency = 18
    /\ last.ret = 1

(***************************************************************************)
(* Properties of the program, checked under Spec.  last' of a step of      *)
(* TxTask or DashboardBlock holds the update and what the handler returned.*)
(***************************************************************************)
BlockCall == last'.op = "process_finalized_block"

\* C6: process_finalized_block for a slot that is in the processed-slots
\* ring returns an empty confirmation list and changes neither the tracker
\* nor any field of the statistics.
C6_BlockIdempotent ==
    [][(BlockCall /\ has_processed_slot(vote_tracker, last'.slot)) =>
        /\ last'.ok
        /\ last'.value = <<>>
        /\ last'.calls = <<>>
        /\ vote_tracker' = vote_tracker
        /\ stats' = stats]_vars

\* a block with transactions came a second time, after votes were recorded
C6_Witness ==
    /\ last.op = "process_finalized_block"
    /\ last.transactions > 0
    /\ last.calls = <<>>
    /\ last.value = <<>>
    /\ stats.total_transactions > 0
    /\ stats.current_finalized_slot = last.slot
    /\ CircularBuffer_iter(vote_tracker.processed_slots) = <<last.slot>>
    /\ handled = 2

\* C7: when the first update is a vote transaction at slot 1000 whose only
\* new-vote slot is 1000 and the second is the block of slot 1004 with just
\* that signature's transaction voting on 1000, the block yields exactly one
\* ConfirmedVote, of latency 4 and 14 credits, the signature is no longer
\* pending, and the statistics count 1 transaction, 0 optimal, 1 good.
C7_EndToEnd ==
    [][(/\ handled = 1
        /\ last.op = "process_vote_transaction"
        /\ last.slot = 1000
        /\ last.tx.is_vote
        /\ last.tx.new_votes = {1000}
        /\ last.ok
        /\ BlockCall
        /\ last'.slot = 1004
        /\ last'.transactions = 1
        /\ \E i \in DOMAIN last'.calls :
              /\ last'.calls[i].signature = fd_bs58_encode_64(last.tx.signature)
              /\ last'.calls[i].vote_info.slot = 1000) =>
        /\ last'.ok
        /\ Len(last'.value) = 1
        /\ last'.value[1].signature = fd_bs58_encode_64(last.tx.signature)
        /\ last'.value[1].voted_slot = 1000
        /\ last'.value[1].finalized_slot = 1004
        /\ last'.value[1].latency = 4
        /\ last'.value[1].tvc_credits = 14
        /\ fd_bs58_encode_64(last.tx.signature) \in DOMAIN vote_tracker.pending_votes
        /\ fd_bs58_encode_64(last.tx.signature) \notin DOMAIN vote_tracker'.pending_votes
        /\ stats'.total_transactions = 1
        /\ stats'.optimal_votes = 0
        /\ stats'.good_votes = 1
        /\ stats'.poor_votes = 0]_vars

\* the two updates have been handled and the vote went the pending path
C7_Witness ==
    /\ handled = 2
    /\ last.op = "process_finalized_block"
    /\ last.slot = 1004
    /\ Len(last.value) = 1
    /\ last.value[1].latency = 4
    /\ last.value[1].tvc_credits = 14
    /\ CircularBuffer_iter(vote_tracker.confirmed_votes) = last.value
    /\ DOMAIN vote_tracker.pending_votes = {}
    /\ stats.total_transactions = 1
    /\ stats.good_votes = 1

SeqRange(q) == {q[i] : i \in DOMAIN q}

\* every ConfirmedVote held anywhere in the state
HeldVotes ==
    SeqRange(CircularBuffer_iter(vote_tracker.confirmed_votes))
        \cup SeqRange(stats.recent_confirmed_votes)
        \cup SeqRange(stats.session_poor_votes)
        \cup SeqRange(stats.last_confirmed_vote)
        \cup (IF last.op = "process_finalized_block"
              THEN SeqRange(last.value)
                   \cup UNION {SeqRange(last.calls[i].ret) : i \in DOMAIN last.calls}
              ELSE {})

\* C8: every ConfirmedVote the tracker emits (pending path or late-arriving
\* path) or holds in its recent-confirmed ring, and every one the statistics
\* hold in their recency views, has tvc_credits in 1..16.
C8_CreditsInRange ==
    \A v \in HeldVotes : v.tvc_credits >= 1 /\ v.tvc_credits <= 16

\* votes of latency 200 are held by the ring and by the statistics
C8_Witness ==
    /\ \E v \in SeqRange(CircularBuffer_iter(vote_tracker.confirmed_votes)) :
          v.latency = 200 /\ v.tvc_credits = 1
    /\ \E v \in SeqRange(stats.session_poor_votes) :
          v.latency = 200 /\ v.tvc_credits = 1
    /\ \E v \in SeqRange(stats.recent_confirmed_votes) : v.tvc_credits = 16

\* the new-vote slots one instruction payload carries
NewVotesOfData(data) == CarriedNewVotes(<<Instruction(1, data)>>)

\* C10: every slot of every pending entry is a new-vote slot
\* (confirmation_count 1) of the instruction the entry was made from, no
\* pending entry has an empty voted_slots, a transaction update that is not
\* a vote or carries no new-vote slot leaves the pending table as it was,
\* and block processing calls confirm_vote only for new-vote slots.
C10_PendingInv ==
    /\ \A k \in DOMAIN vote_tracker.pending_votes :
          LET pending == vote_tracker.pending_votes[k]
          IN  /\ pending.voted_slots # {}
              /\ pending.voted_slots \subseteq NewVotesOfData(pending.instruction_data)
    /\ last.op = "process_finalized_block" =>
          \A i \in DOMAIN last.calls :
              last.calls[i].vote_info.confirmation_count = Some(1)

C10_NoPendingStep ==
    (/\ last'.op = "process_vote_transaction"
     /\ (~last'.tx.is_vote \/ last'.tx.new_votes = {})) =>
        vote_tracker'.pending_votes = vote_tracker.pending_votes

C10_OnlyNewVotes == []C10_PendingInv /\ [][C10_NoPendingStep]_vars

\* an entry made from a tower with an old lockout and a new vote is pending,
\* and a block carrying a tower replay has been processed
C10_Witness ==
    /\ \E k \in DOMAIN vote_tracker.pending_votes :
          /\ vote_tracker.pending_votes[k].instruction_data =
                 TowerSync(<<Lockout(1000, 2), Lockout(1200, 1)>>)
          /\ vote_tracker.pending_votes[k].voted_slots = {1200}
    /\ last.op = "process_finalized_block"
    /\ last.transactions > 0
    /\ last.calls = <<>>
    /\ last.ok

(***************************************************************************)
(* Decode errors and the confirm_vote calls of a block, checked under Spec *)
(***************************************************************************)
FreshBlockCall == BlockCall /\ ~has_processed_slot(vote_tracker, last'.slot)

\* a vote transaction carrying a decodable new-vote slot is pending after its
\* intake, unless the sweep of add_pending_vote ran in this very call
C11_TxStep ==
    (/\ last'.op = "process_vote_transaction"
     /\ last'.tx.is_vote
     /\ last'.tx.new_votes # {}) =>
        \/ fd_bs58_encode_64(last'.tx.signature) \in DOMAIN vote_tracker'.pending_votes
        \/ vote_tracker'.last_cleanup_time # vote_tracker.last_cleanup_time

\* every confirmation a confirm_vote call of the block returned is in the
\* list the block returns, and every transaction of the block that carries a
\* decodable new-vote slot has had a confirm_vote call
C11_BlockStep ==
    FreshBlockCall =>
        /\ \A i \in DOMAIN last'.calls :
              last'.calls[i].ret # None =>
                  \E j \in DOMAIN last'.value : last'.value[j] = last'.calls[i].ret[1]
        /\ \A n \in DOMAIN last'.block :
              last'.block[n].new_votes # {} =>
                  \E i \in DOMAIN last'.calls :
                      last'.calls[i].signature = last'.block[n].signature

\* C11: a vote-program payload that fails to decode aborts only that
\* instruction: the remaining instructions of the transaction update and the
\* remaining transactions of the block are still processed, and the
\* confirmations already obtained from the block are still returned.
C11_MalformedAbortsOnlyInstruction == [][C11_TxStep /\ C11_BlockStep]_vars

\* the confirm_vote calls made for one signature of the block in last'
CallsOf(signature) == SelectSeq(last'.calls, LAMBDA c : c.signature = signature)

Stopped(cs) == cs # <<>> /\ cs[Len(cs)].ret # None

\* the calls of a transaction follow its new-vote slots in wire order and
\* end with the first call that returns a confirmation
TxWellCalled(f) ==
    LET cs == CallsOf(f.signature)
    IN  /\ Len(cs) <= Len(f.slots)
        /\ \A i \in DOMAIN cs :
              /\ cs[i].vote_info = VoteSlotInfo_new(f.slots[i], Some(1))
              /\ cs[i].finalized_slot = last'.slot
              /\ (i < Len(cs) => cs[i].ret = None)
        /\ (Len(cs) = Len(f.slots) \/ Stopped(cs))

\* the transaction ran into a payload that does not decode
TxErrors(f) == f.malformed /\ ~Stopped(CallsOf(f.signature))

TxReached(n) == \A m \in 1..(n - 1) : ~TxErrors(last'.block[m])

TxIndex(signature) == CHOOSE n \in DOMAIN last'.block : last'.block[n].signature = signature

\* C13 as stated: processing an unprocessed finalized block invokes
\* confirm(signature, voted_slot, finalized_slot) for every new-vote slot of
\* every vote-program instruction of every transaction of the block.
C13_ConfirmEveryNewVote ==
    [][FreshBlockCall =>
        \A n \in DOMAIN last'.block :
        \A s \in last'.block[n].new_votes :
            \E i \in DOMAIN last'.calls :
                /\ last'.calls[i].signature = last'.block[n].signature
                /\ last'.calls[i].vote_info.slot = s
                /\ last'.calls[i].finalized_slot = last'.slot]_vars

\* C13 amended: processing an unprocessed finalized block invokes confirm for
\* the new-vote slots of each transaction in wire order and stops, for that
\* transaction, at the first call that returns a confirmation; a payload
\* that fails to decode, once reached, ends the block with an error and the
\* transactions after it get no call.
C13_ConfirmUntilFirst ==
    [][FreshBlockCall =>
        /\ \A n \in DOMAIN last'.block :
              IF TxReached(n) THEN TxWellCalled(last'.block[n])
              ELSE CallsOf(last'.block[n].signature) = <<>>
        /\ last'.ok <=> \A n \in DOMAIN last'.block : ~TxErrors(last'.block[n])
        /\ \A i \in DOMAIN last'.calls :
              \E n \in DOMAIN last'.block :
                  last'.block[n].signature = last'.calls[i].signature
        /\ \A i, j \in DOMAIN last'.calls :
              i < j => TxIndex(last'.calls[i].signature)
                          <= TxIndex(last'.calls[j].signature)]_vars

\* a block of two transactions, each with new-vote slots 1000 and 1200: one
\* call was made per transaction, for slot 1000, and it returned a vote
C13_Witness ==
    /\ last.op = "process_finalized_block"
    /\ last.ok
    /\ Len(last.block) = 2
    /\ \A n \in DOMAIN last.block : last.block[n].slots = <<1000, 1200>>
    /\ Len(last.calls) = 2
    /\ \A i \in DOMAIN last.calls :
          last.calls[i].vote_info.slot = 1000 /\ last.calls[i].ret # None
    /\ last.calls[1].signature # last.calls[2].signature
    /\ Len(last.value) = 2

(***************************************************************************)
(* Properties of the pipeline, checked under SpecPipeline                  *)
(***************************************************************************)
\* the step is the end of tx_task's handling of one update
TxHandled == Len(tx_task'.log) = Len(tx_task.log) + 1

\* the step is the end of dashboard_task's call of process_finalized_block
BlockHandled == Len(dashboard_task'.log) = Len(dashboard_task.log) + 1

HoldsLock(task, lock) == task \in lock.writers \cup lock.readers

C12_AfterError ==
    /\ (TxHandled /\ ~tx_task'.log[Len(tx_task'.log)].ok) =>
          /\ tx_task'.pc = "recv"
          /\ ~HoldsLock("tx_task", vote_tracker_lock')
          /\ ~tx_channel'.rx_closed
    /\ (BlockHandled /\ ~dashboard_task'.log[Len(dashboard_task'.log)].ok) =>
          /\ dashboard_task'.pc = "select"
          /\ ~HoldsLock("dashboard_task", vote_tracker_lock')
          /\ ~HoldsLock("dashboard_task", stats_lock')
          /\ ~block_channel'.rx_closed
          /\ stats' = stats

\* an update that decodes is handled the same whatever failed before it
C12_NextHandled ==
    /\ (TxHandled /\ tx_task.hand[1].update = TxUpdate(1000, TRUE, 1, <<NewVote1000>>)) =>
          /\ tx_task'.log[Len(tx_task'.log)].ok
          /\ fd_bs58_encode_64(1) \in DOMAIN vote_tracker'.pending_votes
    /\ (/\ BlockHandled
        /\ dashboard_task.hand[1].update.slot = 1200
        /\ ~has_processed_slot(vote_tracker, 1200)) =>
          /\ dashboard_task'.log[Len(dashboard_task'.log)] =
                 [id |-> dashboard_task.hand[1].id, ok |-> TRUE, votes |-> 2]
          /\ dashboard_task'.pc = "stats_write"

\* a worker ends only when its queue is closed and drained (tx_task) or on
\* the cleanup notification (dashboard_task)
C12_Alive ==
    /\ tx_task.pc = "done" => (tx_channel.tx_closed /\ tx_channel.buffer = <<>>)
    /\ dashboard_task.pc = "done" => main_task.cleanup_sent > 0

\* C12: an error returned by process_vote_transaction or
\* process_finalized_block ends only the handling of that update: the worker
\* drops the tracker guard, is back at its loop head with its queue open,
\* and handles the next update as it would have without the error.
C12_ErrorAbortsOnlyUpdate ==
    []C12_Alive /\ [][C12_AfterError /\ C12_NextHandled]_vars

\* tx_task failed on one update and made the next one pending;
\* dashboard_task failed on a block and is back at its select
C12_Witness ==
    /\ Len(tx_task.log) = 2
    /\ ~tx_task.log[1].ok
    /\ tx_task.log[2].ok
    /\ tx_task.pc = "recv"
    /\ fd_bs58_encode_64(1) \in DOMAIN vote_tracker.pending_votes
    /\ Len(dashboard_task.log) = 1
    /\ ~dashboard_task.log[1].ok
    /\ dashboard_task.pc = "select"
    /\ vote_tracker_lock = RwLock_new

\* C14: the keepalive is answered on the same iteration of the
\* classification loop: what the loop does right after reading a ping is the
\* send of its acknowledgement on the outbound side (or the failure of that
\* send, which ends the loop); no read of a further message and no enqueue
\* comes between.
C14_KeepaliveSameIteration ==
    /\ \A i \in DOMAIN stream_task.log :
          (stream_task.log[i].event = "read" /\ stream_task.log[i].kind = "Ping") =>
              IF i = Len(stream_task.log)
              THEN /\ stream_task.pc = "send_ping"
                   /\ stream_task.hand # None
                   /\ stream_task.hand[1].id = stream_task.log[i].id
              ELSE /\ stream_task.log[i + 1].event \in {"ack", "failed"}
                   /\ stream_task.log[i + 1].kind = "Ping"
                   /\ stream_task.log[i + 1].id = stream_task.log[i].id
    /\ Len(subscribe_tx) =
           Cardinality({i \in DOMAIN stream_task.log : stream_task.log[i].event = "ack"})

\* a ping was read after a transaction, acknowledged, and then the next
\* message was read
C14_Witness ==
    /\ Len(subscribe_tx) = 1
    /\ Len(stream_task.log) = 5
    /\ stream_task.log[2].event = "enqueue"
    /\ stream_task.log[3] = [event |-> "read", kind |-> "Ping", id |-> 2]
    /\ stream_task.log[4] = [event |-> "ack", kind |-> "Ping", id |-> 2]
    /\ stream_task.log[5].event = "read"

\* the classification loop is suspended in a send on a full work queue
Backpressure ==
    \/ stream_task.pc = "send_tx" /\ ~mpsc_send_ready(tx_channel)
    \/ stream_task.pc = "send_block" /\ ~mpsc_send_ready(block_channel)

\* C15: queue backpressure never delays a keepalive reply: no ping the
\* stream has delivered waits unacknowledged while the classification loop
\* is suspended on a full transaction or block queue.
C15_BackpressureNeverDelaysPing ==
    ~(Backpressure /\ \E i \in DOMAIN stream : stream[i].kind = "Ping")

\* the ids of a sequence of messages or of log entries
Ids(q) == [i \in DOMAIN q |-> q[i].id]

\* the ids of the updates of one kind in the order the loop read them
ReadIds(kind) ==
    Ids(SelectSeq(stream_task.log, LAMBDA e : e.event = "read" /\ e.kind = kind))

\* the update the classification loop holds for a queue
InHand(kind) ==
    IF stream_task.hand # None /\ stream_task.hand[1].kind = kind
    THEN stream_task.hand ELSE <<>>

\* the updates of a queue from the worker's log back to the loop's hand
TxFlow ==
    Ids(tx_task.log) \o Ids(tx_task.hand) \o Ids(tx_channel.buffer)
        \o Ids(InHand("Transaction"))

BlockFlow ==
    Ids(dashboard_task.log) \o Ids(dashboard_task.hand) \o Ids(block_channel.buffer)
        \o Ids(InHand("Block"))

IsPrefix(p, q) == Len(p) <= Len(q) /\ \A i \in DOMAIN p : p[i] = q[i]

C17_TrackerInv ==
    /\ ~(tx_task.pc = "process" /\ dashboard_task.pc = "process")
    /\ Cardinality(vote_tracker_lock.writers) <= 1
    /\ vote_tracker_lock.readers = {}
    /\ tx_task.pc = "process" <=> "tx_task" \in vote_tracker_lock.writers
    /\ dashboard_task.pc = "process" <=> "dashboard_task" \in vote_tracker_lock.writers

C17_TrackerStep ==
    vote_tracker' # vote_tracker =>
        \/ /\ vote_tracker_lock.writers = {"tx_task"}
           /\ TxHandled
           /\ \E order \in OrdersFor(vote_tracker) :
                 vote_tracker' = process_vote_transaction(tx_task.hand[1].update,
                                     vote_tracker, now, order).tracker
        \/ /\ vote_tracker_lock.writers = {"dashboard_task"}
           /\ BlockHandled
           /\ \E order \in OrdersFor(vote_tracker) :
                 vote_tracker' = process_finalized_block(dashboard_task.hand[1].update,
                                     vote_tracker, order).tracker

C17_TrackerExclusive == []C17_TrackerInv /\ [][C17_TrackerStep]_vars

\* tx_task holds the write guard while dashboard_task waits for it with a
\* block in hand
C17_Witness ==
    /\ tx_task.pc = "process"
    /\ vote_tracker_lock.writers = {"tx_task"}
    /\ dashboard_task.pc = "write"
    /\ dashboard_task.hand # None

\* the votes of the first k blocks dashboard_task has processed
RECURSIVE VotesThrough(_)
VotesThrough(k) ==
    IF k = 0 THEN 0
    ELSE VotesThrough(k - 1)
         + (IF dashboard_task.log[k].ok THEN dashboard_task.log[k].votes ELSE 0)

Consistent(s) ==
    /\ s.total_tvc_possible = VOTE_CREDITS_MAXIMUM_PER_SLOT * s.total_transactions
    /\ s.optimal_votes + s.good_votes + s.poor_votes = s.total_transactions

\* C18: presentation never renders in the middle of a confirmation update:
\* every snapshot the render arm has read shows the statistics as they were
\* after the recording of whole blocks, so in it total_tvc_possible is 16
\* times total_transactions and optimal + good + poor votes is
\* total_transactions; the statistics are off these only inside a record
\* call, under the write guard of dashboard_task.
C18_SnapshotConsistent ==
    /\ dashboard_task.snapshot # None =>
          /\ Consistent(dashboard_task.snapshot[1])
          /\ \E k \in 0..Len(dashboard_task.log) :
                dashboard_task.snapshot[1].total_transactions = VotesThrough(k)
    /\ ~Consistent(stats) =>
          /\ dashboard_task.pc = "recording"
          /\ stats_lock.writers = {"dashboard_task"}
    /\ dashboard_task.pc \in {"record", "recording"} =>
          stats_lock.writers = {"dashboard_task"}

\* a snapshot taken after both votes of the second block were recorded
C18_Witness ==
    /\ dashboard_task.snapshot # None
    /\ dashboard_task.snapshot[1].total_transactions = 2
    /\ dashboard_task.snapshot[1].poor_votes = 2
    /\ dashboard_task.snapshot[1].total_tvc_possible = 32
    /\ Len(dashboard_task.log) = 2
    /\ dashboard_task.pc = "select"

\* C19: no lock is held across a wait: a task waiting for its next queue
\* item, timer tick or cleanup signal (or ended), or waiting for a lock,
\* holds neither the VoteTracker lock nor the PerformanceStats lock;
\* dashboard_task never holds both; stream_task and main never hold one.
C19_NoLockAcrossWait ==
    /\ tx_task.pc \in {"recv", "write", "done"} =>
          ~HoldsLock("tx_task", vote_tracker_lock)
    /\ ~HoldsLock("tx_task", stats_lock)
    /\ dashboard_task.pc \in {"select", "write", "stats_write", "done"} =>
          /\ ~HoldsLock("dashboard_task", vote_tracker_lock)
          /\ ~HoldsLock("dashboard_task", stats_lock)
    /\ ~(HoldsLock("dashboard_task", vote_tracker_lock)
         /\ HoldsLock("dashboard_task", stats_lock))
    /\ \A lock \in {vote_tracker_lock, stats_lock} :
          lock.writers \cup lock.readers \subseteq {"tx_task", "dashboard_task"}

\* both workers wait for their next item after having held their locks: a
\* transaction was taken in and a block's votes were recorded and rendered
C19_Witness ==
    /\ tx_task.pc = "recv"
    /\ Len(tx_task.log) = 1
    /\ dashboard_task.pc = "select"
    /\ stats.total_transactions = 2
    /\ dashboard_task.snapshot = Some(render(stats))
    /\ vote_tracker_lock = RwLock_new
    /\ stats_lock = RwLock_new

Interrupted == main_task.pc \in {"cleanup", "sleep"}

C20_Inv ==
    /\ main_task.cleanup_sent <= 1
    /\ main_task.pc = "cleanup" =>
          /\ main_task.cleanup_sent = 0
          /\ mpsc_send_ready(cleanup_channel)
    /\ main_task.pc = "sleep" => main_task.cleanup_sent = 1

C20_Step ==
    /\ (main_task.pc = "select" /\ main_task'.pc # "select") =>
          \/ main_task'.pc = "cleanup"
          \/ /\ main_task'.pc = "exited"
             /\ "done" \in {stream_task.pc, tx_task.pc, dashboard_task.pc}
    /\ main_task.pc = "cleanup" /\ main_task'.pc # "cleanup" =>
          /\ main_task'.pc = "sleep"
          /\ cleanup_channel'.buffer = Append(cleanup_channel.buffer, "cleanup")
          /\ dashboard_task' = dashboard_task
    /\ main_task.pc = "sleep" /\ main_task'.pc # "sleep" =>
          /\ main_task'.pc = "exited"
          /\ main_task'.cleanup_sent = 1
    /\ main_task.pc = "exited" => UNCHANGED vars

\* C20: after the interrupt main sends exactly one cleanup notification, and
\* that send completes at once whatever the dashboard task is doing (the
\* cleanup channel has room), then the grace delay, then the exit, after
\* which nothing runs; from every state after the interrupt the exit is
\* eventually reached, whatever the queues and the workers are doing.
C20_ShutdownReachesExit ==
    /\ []C20_Inv
    /\ [][C20_Step]_vars
    /\ (Interrupted ~> main_task.pc = "exited")

\* the process has exited after the interrupt while the cleanup notification
\* was never taken, the transaction worker was in the middle of an update
\* and the block queue was full
C20_Witness ==
    /\ main_task.pc = "exited"
    /\ main_task.cleanup_sent = 1
    /\ cleanup_channel.buffer = <<"cleanup">>
    /\ dashboard_task.pc # "done"
    /\ tx_task.pc = "process"
    /\ Len(block_channel.buffer) = block_channel.capacity

StreamReadsErr ==
    /\ stream_task.pc = "next"
    /\ stream_task' # stream_task
    /\ Head(stream).kind = "Err"

KeepaliveSendFails ==
    /\ stream_task.pc = "send_ping"
    /\ stream_task' # stream_task
    /\ subscribe_tx' = subscribe_tx

C21_Step ==
    /\ StreamReadsErr \/ KeepaliveSendFails =>
          /\ stream_task'.pc = "done"
          /\ tx_channel'.tx_closed /\ block_channel'.tx_closed
    /\ stream_task.pc = "done" => stream_task'.pc = "done"
    /\ main_task.pc = "exited" => UNCHANGED vars

\* C21: when stream_task reads a transport error, or its keepalive reply
\* cannot be sent, the task ends in that step (and stays ended); and when no
\* interrupt signal ever arrives, the end of stream_task leads to the exit of
\* the process: main's select completes on the finished task.
C21_StreamEndShutsDown ==
    /\ [][C21_Step]_vars
    /\ (stream_task.pc = "done" ~> main_task.pc = "exited")

\* the process has exited without an interrupt after stream_task read a
\* transport error, while both workers were still running
C21_Witness ==
    /\ main_task.pc = "exited"
    /\ main_task.cleanup_sent = 0
    /\ stream_task.pc = "done"
    /\ Last(stream_task.log) = [event |-> "read", kind |-> "Err",
                                id |-> Len(stream_task.log)]
    /\ Len(stream_task.log) > 1
    /\ tx_task.pc # "done"
    /\ dashboard_task.pc # "done"

\* the statistics after add_confirmed_vote of each of the votes, in order
RECURSIVE RecordAll(_, _)
RecordAll(self, confirmed_votes) ==
    IF confirmed_votes = <<>> THEN self
    ELSE RecordAll(add_confirmed_vote(self, Head(confirmed_votes)), Tail(confirmed_votes))

\* the votes of a block that the filter of the configuration lets through
Forwarded(confirmed_votes) ==
    SelectSeq(confirmed_votes,
              LAMBDA v : should_save_vote(PerformanceFilterConfig_default, v.latency,
                             v.tvc_credits, categorize_tvc_performance(v.tvc_credits)))

\* C22: a failure of the audit sink never affects the statistics: after a
\* block is recorded the statistics are those of add_confirmed_vote applied
\* to every confirmed vote of the block in order, whatever the audit writes
\* did (so the same after a failed write as after a successful one, and the
\* votes after a failed write are recorded too); each vote the filter lets
\* through is either persisted or counted as a logged error.
C22_AuditFailureHarmless ==
    [][BlockCall =>
          /\ stats' = RecordAll(stats, last'.value)
          /\ Len(audit') - Len(audit) + last'.errors = Len(Forwarded(last'.value))
          /\ IsPrefix(audit, audit')]_vars

\* a block of two votes whose first audit write failed and whose second
\* succeeded: both votes are in the statistics
C22_Witness ==
    /\ last.op = "process_finalized_block"
    /\ Len(last.value) = 2
    /\ last.errors = 1
    /\ Len(audit) = 1
    /\ audit[1].transaction_signature = last.value[2].signature
    /\ stats.total_transactions = 2
    /\ stats.last_confirmed_vote = Some(last.value[2])

\* the spellings under which a configured name means a tier
Spellings(tier) ==
    CASE tier = "optimal" -> {"optimal", "Optimal", "OPTIMAL"}
      [] tier = "good" -> {"good", "Good", "GOOD"}
      [] tier = "fair" -> {"fair", "Fair", "FAIR"}
      [] tier = "poor" -> {"poor", "Poor", "POOR"}
      [] tier = "critical" -> {"critical", "Critical", "CRITICAL"}

Unset(bound) == bound = None

FilterPasses(config, latency, tvc_credits) ==
    /\ config.enabled
    /\ Unset(config.min_latency_threshold) \/ latency >= config.min_latency_threshold[1]
    /\ Unset(config.max_latency_threshold) \/ latency <= config.max_latency_threshold[1]
    /\ Unset(config.min_tvc_threshold) \/ tvc_credits >= config.min_tvc_threshold[1]
    /\ Unset(config.max_tvc_threshold) \/ tvc_credits <= config.max_tvc_threshold[1]
    /\ \/ config.performance_levels = <<>>
       \/ \E n \in DOMAIN config.performance_levels :
             config.performance_levels[n]
                 \in Spellings(categorize_tvc_performance(tvc_credits))

\* only min_latency = 1 and max_tvc = 15 are set
OnlyMinLatencyMaxTvc == PerformanceFilterConfig(TRUE, Some(1), None, None, Some(15), <<>>)

\* C23: should_save_vote is true exactly when the filter is enabled, the
\* latency and the credits are within every bound that is set, and the tier
\* list is empty or names the vote's tier in some spelling of upper and lower
\* case; with only min_latency = 1 and max_tvc = 15 set, latency 0 is
\* excluded, latency 3 with 13 credits is included and 16 credits are
\* excluded at every latency.
C23_FilterPredicate ==
    last.op = "should_save_vote" =>
        /\ last.ret = FilterPasses(last.config, last.latency, last.tvc_credits)
        /\ last.config = OnlyMinLatencyMaxTvc =>
              /\ last.latency = 0 => ~last.ret
              /\ last.latency = 3 /\ last.tvc_credits = 13 => last.ret
              /\ last.tvc_credits = 16 => ~last.ret

\* a vote with latency 3 and 13 credits passes a filter that has the two
\* bounds and names its tier as "Good"
C23_Witness ==
    /\ last.op = "should_save_vote"
    /\ last.config = PerformanceFilterConfig(TRUE, Some(1), None, None, Some(15), <<"Good">>)
    /\ last.latency = 3
    /\ last.tvc_credits = 13
    /\ last.ret

RECURSIVE SumOver(_, _)
SumOver(Field(_), votes) ==
    IF votes = <<>> THEN 0 ELSE Field(Head(votes)) + SumOver(Field, Tail(votes))

CreditsOf(vote) == vote.tvc_credits
LatencyOf(vote) == vote.latency

\* how many of the votes are of one of the tiers
CountTiers(votes, tiers) ==
    Len(SelectSeq(votes, LAMBDA v : categorize_tvc_performance(v.tvc_credits) \in tiers))

\* C24: after any sequence of record calls, total_tvc_possible is 16 times
\* total_transactions, total_tvc_earned is the sum of the credits and at most
\* total_tvc_possible, so that the missed credits are possible - earned,
\* optimal_votes, good_votes and poor_votes count the votes of tier optimal,
\* of tier good, and of tiers fair, poor or critical, and add up to
\* total_transactions, and total_latency_sum is the sum of the latencies.
C24_CounterIdentities ==
    /\ stats.total_transactions = Len(recorded)
    /\ stats.total_tvc_possible = 16 * stats.total_transactions
    /\ stats.total_tvc_earned = SumOver(CreditsOf, recorded)
    /\ stats.total_tvc_earned <= stats.total_tvc_possible
    /\ calculate_missed_credits(stats) = stats.total_tvc_possible - stats.total_tvc_earned
    /\ stats.optimal_votes = CountTiers(recorded, {"optimal"})
    /\ stats.good_votes = CountTiers(recorded, {"good"})
    /\ stats.poor_votes = CountTiers(recorded, {"fair", "poor", "critical"})
    /\ stats.optimal_votes + stats.good_votes + stats.poor_votes = stats.total_transactions
    /\ stats.total_latency_sum = SumOver(LatencyOf, recorded)

\* votes of the fair tier followed by an optimal one: the fair ones are
\* counted as poor
C24_Witness ==
    /\ Len(recorded) = 3
    /\ recorded[1].tvc_credits = 10
    /\ recorded[3].tvc_credits = 16
    /\ stats.poor_votes = 2
    /\ stats.optimal_votes = 1
    /\ stats.total_tvc_earned = 36
    /\ stats.total_tvc_possible = 48
    /\ stats.total_latency_sum = 16

\* the last min(Len(q), k) elements of q
LastOf(q, k) == SubSeq(q, Max(1, Len(q) - k + 1), Len(q))

SubMaximum(votes) == SelectSeq(votes, LAMBDA v : v.tvc_credits < 16)

\* C25: after any sequence of record calls, recent_confirmed_votes is the
\* last min(n, 20) recorded votes in order, avg_latency_window their
\* latencies and avg_latency_window_sum the sum of exactly those,
\* session_poor_votes the last min(m, 50) recorded votes with fewer than 16
\* credits, and last_confirmed_vote the most recently recorded vote.
C25_RecencyViews ==
    /\ stats.recent_confirmed_votes = LastOf(recorded, 20)
    /\ stats.avg_latency_window
          = [n \in DOMAIN LastOf(recorded, 20) |-> LastOf(recorded, 20)[n].latency]
    /\ stats.avg_latency_window_sum = SumOver(LatencyOf, LastOf(recorded, 20))
    /\ stats.session_poor_votes = LastOf(SubMaximum(recorded), 50)
    /\ \A n \in DOMAIN stats.session_poor_votes :
          stats.session_poor_votes[n].tvc_credits # 16
    /\ stats.last_confirmed_vote
          = IF recorded = <<>> THEN None ELSE Some(Last(recorded))

\* more than 50 sub-maximum votes were recorded after an optimal one, and
\* the window of 20 has moved past votes of two different latencies
C25_Witness ==
    /\ Len(recorded) = 52
    /\ recorded[1].tvc_credits = 16
    /\ Len(SubMaximum(recorded)) = 51
    /\ Len(stats.session_poor_votes) = 50
    /\ Len(stats.recent_confirmed_votes) = 20
    /\ Len(stats.avg_latency_window) = 20
    /\ stats.avg_latency_window_sum = 20 * 200

\* C26: after n pushes into a ring of capacity c >= 1, len is min(n, c) and
\* iteration yields the last min(n, c) pushed items in push order; a push
\* into a full ring leaves len at c (the oldest item is the one that goes);
\* so the ring of capacity 100 never holds more than 100 and the ring of
\* capacity 50 never more than 50.
C26_RingKeepsNewest ==
    /\ CircularBuffer_len(ring) = Min(Len(pushes), ring.capacity)
    /\ CircularBuffer_iter(ring) = LastOf(pushes, ring.capacity)
    /\ ring.capacity \in 1..MaxCapacity
                         \cup {CONFIRMED_VOTES_CAPACITY, PROCESSED_SLOTS_CAPACITY}
    /\ ring.capacity = CONFIRMED_VOTES_CAPACITY => CircularBuffer_len(ring) <= 100
    /\ ring.capacity = PROCESSED_SLOTS_CAPACITY => CircularBuffer_len(ring) <= 50

\* capacity + 2 items were pushed into the ring of capacity 50: it holds the
\* last 50 of them, oldest first
C26_Witness ==
    /\ ring.capacity = PROCESSED_SLOTS_CAPACITY
    /\ Len(pushes) = PROCESSED_SLOTS_CAPACITY + 2
    /\ CircularBuffer_len(ring) = 50
    /\ CircularBuffer_iter(ring)[1] = pushes[3]
    /\ CircularBuffer_iter(ring)[50] = pushes[52]

NoRepeats(q) == \A i, j \in DOMAIN q : i # j => q[i] # q[j]

ProcessedSlots(tracker) == CircularBuffer_iter(tracker.processed_slots)

\* C27: the processed-slots ring never holds a slot twice, and a block
\* update for a slot that is in the ring pushes nothing (one for a slot that
\* is not in the ring pushes exactly that slot).
C27_ProcessedSlotsDistinct ==
    /\ []NoRepeats(ProcessedSlots(vote_tracker))
    /\ [][BlockCall =>
            ProcessedSlots(vote_tracker') =
                IF has_processed_slot(vote_tracker, last'.slot)
                THEN ProcessedSlots(vote_tracker)
                ELSE Append(ProcessedSlots(vote_tracker), last'.slot)]_vars

\* a second block update for slot 1004 arrived after blocks 1004 and 1200
\* were processed: the ring still holds each slot once
C27_Witness ==
    /\ last.op = "process_finalized_block"
    /\ last.slot = 1004
    /\ last.transactions > 0
    /\ last.calls = <<>>
    /\ handled = 3
    /\ ProcessedSlots(vote_tracker) = <<1004, 1200>>

TxCall == last'.op = "process_vote_transaction"

\* the table a sweep may leave of a table: some entries gone, none changed
KeptOf(after, before) ==
    /\ DOMAIN after \subseteq DOMAIN before
    /\ \A k \in DOMAIN after : after[k] = before[k]

C28_OneEntryStep ==
    TxCall /\ last'.tx.present =>
        LET signature == fd_bs58_encode_64(last'.tx.signature)
            after == vote_tracker'.pending_votes
            others == [k \in DOMAIN after \ {signature} |-> after[k]]
        IN  /\ KeptOf(others, vote_tracker.pending_votes)
            /\ IF last'.tx.is_vote /\ last'.tx.final_new_votes # {}
               THEN signature \in DOMAIN after =>
                       /\ after[signature].voted_slots = last'.tx.final_new_votes
                       /\ after[signature].transaction_slot = last'.slot
               ELSE KeptOf(after, vote_tracker.pending_votes)

\* C28: the pending table holds one entry per signature, filed under that
\* signature: a transaction whose signature is already pending replaces the
\* entry (voted_slots and transaction_slot become those of the new entry,
\* which for a transaction of several vote instructions is the last one with
\* new-vote slots) and leaves the entries of the other signatures as they
\* were, apart from eviction.
C28_OneEntryPerSignature ==
    /\ [](\A k \in DOMAIN vote_tracker.pending_votes :
             vote_tracker.pending_votes[k].signature = k)
    /\ [][C28_OneEntryStep]_vars

\* a transaction with two vote instructions (new votes on 1000 and on 1200)
\* arrived under a signature that was pending for slot 1000: the one entry
\* is now that of the second instruction
C28_Witness ==
    /\ last.op = "process_vote_transaction"
    /\ last.tx.new_votes = {1000, 1200}
    /\ last.tx.final_new_votes = {1200}
    /\ DOMAIN last.pending_before = {"S1"}
    /\ last.pending_before["S1"].voted_slots = {1000}
    /\ last.pending_before["S1"].transaction_slot = 1000
    /\ DOMAIN vote_tracker.pending_votes = {"S1"}
    /\ vote_tracker.pending_votes["S1"].voted_slots = {1200}
    /\ vote_tracker.pending_votes["S1"].transaction_slot = 1200
    /\ vote_tracker.pending_count = 3

\* a sweep ran in the step: only cleanup_old_pending stores last_cleanup_time
Swept == vote_tracker'.last_cleanup_time # vote_tracker.last_cleanup_time

\* the highest slot marked processed so far, 0 when there is none (the ring
\* has not wrapped within the bounds, so it still holds every marked slot)
MaxProcessedSlot(tracker) ==
    LET seen == {CircularBuffer_iter(tracker.processed_slots)[i] :
                    i \in 1..CircularBuffer_len(tracker.processed_slots)}
    IN  IF seen = {} THEN 0 ELSE CHOOSE m \in seen : \A x \in seen : x <= m

\* C29: at every sweep the eviction cutoff is (the maximum slot marked
\* processed so far) - 100, saturating at 0, also when blocks were processed
\* out of slot order.
C29_CutoffFromHighestSlot ==
    [][Swept =>
          saturating_sub(vote_tracker'.last_cleanup_slot, CLEANUP_SLOT_WINDOW)
              = saturating_sub(MaxProcessedSlot(vote_tracker), CLEANUP_SLOT_WINDOW)]_vars

\* the pending table right after the insert of add_pending_vote, which is
\* the table the sweep of the same call works on
Inserted == (last'.pending.signature :> last'.pending) @@ vote_tracker.pending_votes

C30_SweepStep ==
    last'.op = "add_pending_vote" /\ last'.swept =>
        LET cutoff == saturating_sub(vote_tracker'.last_cleanup_slot, CLEANUP_SLOT_WINDOW)
            remaining == {k \in DOMAIN Inserted : Inserted[k].transaction_slot > cutoff}
        IN  /\ vote_tracker'.pending_votes = [k \in remaining |-> Inserted[k]]
            /\ vote_tracker'.pending_count = Cardinality(remaining)
            /\ vote_tracker'.confirmed_votes = vote_tracker.confirmed_votes
            /\ vote_tracker'.processed_slots = vote_tracker.processed_slots
            /\ CircularBuffer_len(vote_tracker.processed_slots) = 0 =>
                   /\ cutoff = 0
                   /\ \A k \in DOMAIN Inserted \ remaining : Inserted[k].transaction_slot = 0

\* C30: a sweep removes every pending entry whose transaction_slot is at or
\* below the cutoff and keeps every other entry unchanged, sets the pending
\* count to the number of entries that remain and leaves both rings as they
\* were; with no processed slot the cutoff is 0 and only entries seen in
\* slot 0 go.
C30_SweepEvictsAtOrBelowCutoff == [][C30_SweepStep]_vars

\* a sweep with cutoff 1100 ran on a table of two entries: the one seen in
\* slot 1100 went, the one seen in slot 1101 stayed
C30_Witness ==
    /\ last.op = "add_pending_vote"
    /\ last.swept
    /\ vote_tracker.last_cleanup_slot = 1200
    /\ DOMAIN last.pending_before = {"S1"}
    /\ last.pending_before["S1"].transaction_slot = 1100
    /\ last.pending.signature = "S2"
    /\ last.pending.transaction_slot = 1101
    /\ DOMAIN vote_tracker.pending_votes = {"S2"}
    /\ vote_tracker.pending_votes["S2"] = last.pending
    /\ vote_tracker.pending_count = 1

C31_SweepStep ==
    /\ Swept <=> /\ last'.op = "add_pending_vote"
                 /\ now - vote_tracker.last_cleanup_time >= CLEANUP_INTERVAL_SECS
    /\ Swept =>
          /\ vote_tracker'.last_cleanup_time = now
          /\ last'.pending.signature \in DOMAIN vote_tracker'.pending_votes
                 <=> last'.pending.transaction_slot
                         > saturating_sub(vote_tracker'.last_cleanup_slot,
                                          CLEANUP_SLOT_WINDOW)

\* C31: the sweep runs only inside add_pending_vote, exactly when at least
\* 60 seconds have passed since the tracker was created or last swept (so
\* at most once per 60-second window); the entry just inserted is swept
\* like the others; confirm_vote and block processing never sweep.
C31_SweepOnlyOnInsert == [][C31_SweepStep]_vars

\* an insert 60 seconds after an earlier sweep swept again, and the entry
\* it had just inserted (seen in slot 1000, cutoff 1100) went with it
C31_Witness ==
    /\ last.op = "add_pending_vote"
    /\ now = 120
    /\ vote_tracker.last_cleanup_time = 120
    /\ vote_tracker.last_cleanup_slot = 1200
    /\ last.pending.transaction_slot = 1000
    /\ last.pending.signature \notin DOMAIN vote_tracker.pending_votes
    /\ CircularBuffer_len(vote_tracker.confirmed_votes) > 0

\* the signature is pending with an entry seen in the slot
PendingSince(signature, transaction_slot) ==
    /\ signature \in DOMAIN vote_tracker.pending_votes
    /\ vote_tracker.pending_votes[signature].transaction_slot = transaction_slot

\* the processed slots are more than 100 slots past the slot (every slot
\* processed later is, too)
ProcessedPast(transaction_slot) ==
    /\ CircularBuffer_len(vote_tracker.processed_slots) > 0
    /\ \A i \in DOMAIN ProcessedSlots(vote_tracker) :
           ProcessedSlots(vote_tracker)[i] > transaction_slot + CLEANUP_SLOT_WINDOW

\* C32: every pending vote eventually leaves the pending table: an entry
\* whose slot is never finalized is evicted once the processed slots are
\* more than 100 slots past its transaction_slot, as long as transactions
\* keep being intaken and time keeps advancing (here: while the clock has
\* not reached its bound).
C32_PendingEventuallyLeaves ==
    \A signature \in Signatures :
        (PendingSince(signature, 1000) /\ ProcessedPast(1000) /\ now < MaxSweepNow)
            ~> ~PendingSince(signature, 1000)

\* the insert of the second signature swept, and the first signature's
\* vote seen in slot 1000, never finalized, went out of the table
C32_Witness ==
    /\ last.op = "add_pending_vote"
    /\ last.evicted = {"S1"}
    /\ last.pending.signature = "S2"
    /\ last.pending.transaction_slot = 1200
    /\ DOMAIN vote_tracker.pending_votes = {"S2"}
    /\ vote_tracker.last_cleanup_slot = 1200
    /\ CircularBuffer_len(vote_tracker.confirmed_votes) = 0

\* the interner's map from key to shared text
Cached(tracker) == tracker.signature_cache.cache

C33_InternerStep ==
    last'.op = "get_or_cache_signature" =>
        LET key == last'.signature_bytes
            before == Cached(vote_tracker)
            after == Cached(vote_tracker')
            full == Cardinality(DOMAIN before) >= vote_tracker.signature_cache.max_entries
        IN  IF key \in DOMAIN before
            THEN /\ vote_tracker' = vote_tracker
                 /\ last'.signature = before[key]
            ELSE /\ key \in DOMAIN after
                 /\ after[key] = last'.signature
                 /\ \A k \in DOMAIN after \ {key} : k \in DOMAIN before /\ after[k] = before[k]
                 /\ Cardinality(DOMAIN before \ DOMAIN after) = IF full THEN 1 ELSE 0

\* C33: the interner never holds more than max_entries entries: a call for
\* cached bytes returns the cached text and changes nothing, a call for new
\* bytes on a full cache removes exactly one entry before it inserts, and
\* on a cache that is not full it only inserts.
C33_InternerBounded ==
    /\ [](Cardinality(DOMAIN Cached(vote_tracker)) <= vote_tracker.signature_cache.max_entries)
    /\ [][C33_InternerStep]_vars

\* a full cache of capacity 3 took a fourth key: one of the three entries
\* went, the other two stayed
C33_Witness ==
    /\ last.op = "get_or_cache_signature"
    /\ last.signature_bytes = 4
    /\ vote_tracker.signature_cache.max_entries = 3
    /\ DOMAIN Cached(vote_tracker) = {1, 3, 4}
    /\ handled = 4

\* C34: the pending count that get_stats reports equals the number of
\* entries in the pending table after every sequence of add_pending_vote,
\* confirm_vote and sweeps, re-insertion of a pending signature included
\* (and so never goes below zero).
C34_PendingCountExact ==
    /\ get_stats(vote_tracker).pending_votes >= 0
    /\ get_stats(vote_tracker).pending_votes = Cardinality(DOMAIN vote_tracker.pending_votes)

\* the signatures of the confirmed votes the block worker has recorded
\* (fewer than the window of recent_confirmed_votes within the bounds)
ConfirmedSignatures ==
    {stats.recent_confirmed_votes[i].signature : i \in DOMAIN stats.recent_confirmed_votes}

\* C35: under every interleaving of transaction intake and block
\* processing, a signature for which a ConfirmedVote has been emitted is
\* not in the pending table afterwards, also when the block was processed
\* before the transaction update was intaken.
C35_ConfirmedNeverPendingAgain ==
    \A signature \in ConfirmedSignatures : signature \notin DOMAIN vote_tracker.pending_votes

\* the ConfirmedVotes confirm_vote returned while the block was processed
Produced == SelectSeq(last'.calls, LAMBDA c : c.ret # None)

\* C36: no confirmation is lost between block processing and the
\* statistics: once a block update is handled, total_transactions has grown
\* by the number of ConfirmedVotes confirm_vote produced for it, also when
\* a later transaction of the block fails to decode.
C36_NoConfirmationLost ==
    [][BlockCall =>
          stats'.total_transactions = stats.total_transactions + Len(Produced)]_vars

C37_BlockStep ==
    BlockCall =>
        /\ \A signature \in Signatures :
              /\ \A i \in DOMAIN CallsOf(signature) :
                     CallsOf(signature)[i].ret # None => i = Len(CallsOf(signature))
              /\ Cardinality({i \in DOMAIN last'.value :
                                 last'.value[i].signature = signature}) <= 1
        /\ stats'.total_transactions - stats.total_transactions <= last'.transactions

\* C37: one transaction of a finalized block yields at most one
\* ConfirmedVote: its processing stops at the first slot that confirms, so
\* the statistics count it at most once for the block, whether its
\* signature was pending or not.
C37_OneConfirmationPerTransaction == [][C37_BlockStep]_vars

\* a pending Vote on slots 1000 and 1200 was found in the block of slot
\* 1200: confirm_vote was called once, for slot 1000, and one vote was
\* recorded
C37_Witness ==
    /\ last.op = "process_finalized_block"
    /\ last.slot = 1200
    /\ last.transactions = 1
    /\ Len(last.block) = 1
    /\ last.block[1].new_votes = {1000, 1200}
    /\ Len(last.calls) = 1
    /\ Len(last.value) = 1
    /\ last.value[1].voted_slot = 1000
    /\ CircularBuffer_len(vote_tracker.confirmed_votes) = 1
    /\ stats.total_transactions = 1

C38_BlockStep ==
    BlockCall =>
        /\ has_processed_slot(vote_tracker', last'.slot)
        /\ ~last'.ok => /\ ~has_processed_slot(vote_tracker, last'.slot)
                        /\ ProcessedSlots(vote_tracker')
                               = Append(ProcessedSlots(vote_tracker), last'.slot)
        /\ has_processed_slot(vote_tracker, last'.slot) =>
              /\ vote_tracker' = vote_tracker
              /\ stats' = stats
              /\ last'.ok /\ last'.calls = <<>> /\ last'.value = <<>>

\* C38: the slot of a finalized block is marked processed when the block is
\* taken up, and the mark stays when its processing fails with a decode
\* error; a re-delivery of the block while the slot is in the ring is a
\* no-op, so the votes of the failed block are not confirmed by a retry.
C38_FailedBlockStaysProcessed == [][C38_BlockStep]_vars

\* the block of slot 1004 (a transaction that does not decode, then the
\* vote of the second signature) came again: nothing was called, and the
\* second signature's vote is still pending and unrecorded
C38_Witness ==
    /\ last.op = "process_finalized_block"
    /\ last.slot = 1004
    /\ ProcessedSlots(vote_tracker) = <<1004>>
    /\ handled = 3
    /\ Len(last.block) = 2
    /\ last.block[1].malformed
    /\ last.block[2].signature = "S2"
    /\ last.block[2].new_votes = {1000}
    /\ last.ok /\ last.calls = <<>>
    /\ "S2" \in DOMAIN vote_tracker.pending_votes
    /\ CircularBuffer_len(vote_tracker.confirmed_votes) = 0
    /\ stats.total_transactions = 0

\* the recorded votes confirmed more than 2 slots after the voted slot
Late(votes) == SelectSeq(votes, LAMBDA v : v.latency > VOTE_CREDITS_GRACE_SLOTS)

\* C39: a vote built by the correlator has latency <= 2 exactly when it has
\* 16 credits, so after any sequence of records low_latency_votes equals
\* optimal_votes and session_poor_votes holds exactly the recorded votes
\* with latency > 2 (the last 50 of them).
C39_LowLatencyIsOptimal ==
    /\ \A i \in DOMAIN recorded :
           recorded[i].latency <= 2 <=> recorded[i].tvc_credits = 16
    /\ stats.low_latency_votes = stats.optimal_votes
    /\ stats.low_latency_votes = Len(recorded) - Len(Late(recorded))
    /\ stats.session_poor_votes = LastOf(Late(recorded), SESSION_POOR_WINDOW)

\* one vote of latency 2, then 51 votes of latency 3: one low-latency vote,
\* and the window of poor votes has dropped the first of the 51
C39_Witness ==
    /\ Len(recorded) = 52
    /\ recorded[1].latency = 2
    /\ recorded[2].latency = 3
    /\ stats.low_latency_votes = 1
    /\ stats.optimal_votes = 1
    /\ Len(stats.session_poor_votes) = 50

\* the signatures of the votes in the ring of recently confirmed votes
RingSignatures(tracker) ==
    {CircularBuffer_iter(tracker.confirmed_votes)[i].signature :
        i \in 1..CircularBuffer_len(tracker.confirmed_votes)}

C40_BlockStep ==
    FreshBlockCall =>
        \A n \in DOMAIN last'.block :
            LET f == last'.block[n]
            IN  (/\ TxReached(n)
                 /\ f.slots # <<>>
                 /\ f.signature \in DOMAIN vote_tracker.pending_votes
                 /\ f.slots[1] \in vote_tracker.pending_votes[f.signature].voted_slots
                 /\ f.slots[1] <= last'.slot)
                => /\ f.signature \notin DOMAIN vote_tracker'.pending_votes
                   /\ f.signature \in RingSignatures(vote_tracker')
                   /\ \E i \in DOMAIN last'.value : last'.value[i].signature = f.signature

\* C40: eviction in the interner never changes the identity of a
\* signature: the text cached for a key is the base58 text of that key
\* whatever was evicted before, so a vote filed as pending under a signature
\* is found by confirm_vote for the same signature bytes, also after the
\* cache entry of the signature was evicted and made again.
C40_EvictionKeepsIdentity ==
    /\ [](\A k \in DOMAIN Cached(vote_tracker) :
             Cached(vote_tracker)[k] = fd_bs58_encode_64(k))
    /\ [](\A k \in DOMAIN vote_tracker.pending_votes : k \in Signatures)
    /\ [][C40_BlockStep]_vars

\* with a cache of one entry: the second signature was filed as pending,
\* the block looked up the first signature (evicting the second) and then
\* the second one again, and confirm_vote found its pending vote
C40_Witness ==
    /\ vote_tracker.signature_cache.max_entries = 1
    /\ last.op = "process_finalized_block"
    /\ handled = 2
    /\ Len(last.block) = 2
    /\ last.block[1].signature = "S1"
    /\ last.block[2].signature = "S2"
    /\ Len(last.value) = 2
    /\ RingSignatures(vote_tracker) = {"S2"}
    /\ vote_tracker.pending_votes = <<>>
    /\ DOMAIN Cached(vote_tracker) = {2}

====
